---- MODULE Spec2Model ----
(***************************************************************************)
(* A model of the payment reconciliation and campaign lifecycle logic of   *)
(* the lendahand donation platform (backend/donations).                    *)
(*                                                                         *)
(* Money is held in integer minor units (cents): a Decimal d with two      *)
(* fractional digits is represented by 100 * d.                            *)
(*                                                                         *)
(* The database runs in autocommit mode (settings.py sets no               *)
(* ATOMIC_REQUESTS), so every ORM statement of a request handler is one    *)
(* atomic step and handlers of concurrent requests interleave between      *)
(* statements.  Each handler keeps the model instances it has loaded       *)
(* (campaign, donation) as local snapshots; Model.save() without           *)
(* update_fields writes every column of the snapshot back.                 *)
(***************************************************************************)
EXTENDS Integers, Sequences, FiniteSets, TLC

VARIABLES
    donations,   \* the Donation table: a set of rows [id, ref, campaign, amount]
    campaign,    \* the Campaign table: id -> row
    account,     \* the UserStripeAccount table: user -> row (has = FALSE: no row)
    settings,    \* deployment settings: [STRIPE_SECRET_KEY : BOOLEAN]
    history,     \* the ModerationHistory table, in insertion order
    reply,       \* the answer of the last campaign or account request
    lastId,      \* the id sequences of the Campaign and Donation tables
    proc,        \* request workers: the local state of the handler each runs
    opCount      \* number of reconciliation requests started so far

vars == <<donations, campaign, account, settings, history, reply, lastId, proc, opCount>>

(***************************************************************************)
(* Bounds                                                                  *)
(***************************************************************************)
MaxOps == 3
MaxConcurrentOps == 2
MaxCampaigns == 1
MaxHistory == 2

(***************************************************************************)
(* Users, statuses                                                         *)
(***************************************************************************)
Users == {"alice", "bob", "mod"}

IsModerator(u) == u = "mod"

Statuses == {"draft", "pending", "approved", "rejected", "suspended", "cancelled"}

Procs == {"p1", "p2"}

(***************************************************************************)
(* The processor (Stripe) side.  Checkout sessions are created on the      *)
(* campaign owner's connected account with the campaign id in the session  *)
(* metadata and in the payment-intent metadata.                            *)
(***************************************************************************)
NoPI == ""

StripeSessionList ==
    << [id |-> "cs_a", campaign_id |-> 1, payment_intent |-> "pi_1",
        amount_total |-> 5000, payment_status |-> "paid", account |-> "acct_alice"],
       [id |-> "cs_b", campaign_id |-> 1, payment_intent |-> NoPI,
        amount_total |-> 3000, payment_status |-> "paid", account |-> "acct_alice"],
       [id |-> "cs_c", campaign_id |-> 2, payment_intent |-> "pi_3",
        amount_total |-> 3000, payment_status |-> "unpaid", account |-> "acct_alice"],
       [id |-> "cs_d", campaign_id |-> 2, payment_intent |-> "pi_0",
        amount_total |-> 0, payment_status |-> "paid", account |-> "acct_alice"] >>

SessionIds == {StripeSessionList[i].id : i \in DOMAIN StripeSessionList}

StripeSession(sid) ==
    StripeSessionList[CHOOSE i \in DOMAIN StripeSessionList : StripeSessionList[i].id = sid]

StripePaymentIntentList ==
    << [id |-> "pi_1", campaign_id |-> 1, amount |-> 5000,
        status |-> "succeeded", account |-> "acct_alice"],
       [id |-> "pi_3", campaign_id |-> 2, amount |-> 3000,
        status |-> "requires_payment_method", account |-> "acct_alice"],
       [id |-> "pi_0", campaign_id |-> 2, amount |-> 0,
        status |-> "succeeded", account |-> "acct_alice"] >>

(***************************************************************************)
(* Money: processor amounts are integer minor units; amount / 100 is       *)
(* stored in a DecimalField with two decimal places (whole units and       *)
(* hundredths).                                                            *)
(***************************************************************************)
DecimalFromMinor(n) == (n \div 100) * 100 + (n % 100)

\* How the handlers get from the processor's integer to the stored decimal:
\* amount_total / 100 and pi.amount / 100 divide two ints into a float, and
\* create_or_update_donation turns it into Decimal(str(amount)).
ConversionSteps == <<"int / int: float", "str(float)", "Decimal(str)">>

\* Up to the ten digits of the amount column the float nearest to n / 100
\* prints as n / 100 with at most two decimals, so the decimal made of it is
\* DecimalFromMinor(n).
FloatSteps == {i \in DOMAIN ConversionSteps : ConversionSteps[i] \in
                  {"int / int: float", "str(float)"}}

(***************************************************************************)
(* Payment references: the payment-intent id, or the session-based         *)
(* fallback f"session_{session_id}".  A reference is the pair              *)
(* <<prefix, id>>.                                                         *)
(***************************************************************************)
NoRef == <<"", "">>

\* Variant: without the fallback to the session's own id.
ExtractWithoutOwnId(session, session_id) ==
    IF session.payment_intent # NoPI
    THEN <<"", session.payment_intent>>
    ELSE <<"session_", IF session_id # "" THEN session_id ELSE "unknown">>

\* Variant: the session-based reference even when a payment-intent is known.
ExtractSessionOnly(session, session_id) ==
    <<"session_", IF session_id # "" THEN session_id ELSE session.id>>

\* Variant: one fallback reference for every session without a payment-intent.
ExtractUnknownFallback(session, session_id) ==
    IF session.payment_intent # NoPI
    THEN <<"", session.payment_intent>>
    ELSE <<"session_", "unknown">>

extract_payment_intent_from_session(session, session_id) ==
    IF session.payment_intent # NoPI
    THEN <<"", session.payment_intent>>
    ELSE <<"session_", IF session_id # "" THEN session_id ELSE session.id>>

(***************************************************************************)
(* Rows and local snapshots                                                *)
(***************************************************************************)
NoCampaign ==
    [created_by |-> "", status |-> "", stripe_ready |-> FALSE,
     moderation_notes |-> "", current_amount |-> 0]

NoDonation == [id |-> 0, ref |-> NoRef, campaign |-> 0, amount |-> 0]

NoAccount ==
    [has |-> FALSE, stripe_account_id |-> "", charges_enabled |-> FALSE,
     payouts_enabled |-> FALSE, details_submitted |-> FALSE, onboarding_url |-> FALSE]

\* No campaign or account request has been answered yet.
NoReply == [op |-> "none", user |-> "", c |-> 0, was |-> "", code |-> 0]

is_ready(a) == a.charges_enabled /\ a.payouts_enabled /\ a.details_submitted

get_user_stripe_account(u) == account[u]

\* The summary of sync_all_payments before its loop.
NoResults ==
    [total_campaigns |-> 0, synced |-> 0, failed |-> 0, skipped |-> 0,
     total_donations_created |-> 0, total_donations_updated |-> 0,
     campaigns |-> <<>>, errors |-> <<>>]

IdleProc ==
    [pc |-> "idle", kind |-> "none", sid |-> "", user |-> "", c |-> 0, camp |-> NoCampaign,
     ref |-> NoRef, amount |-> 0, don |-> NoDonation,
     created |-> FALSE, updated |-> FALSE, raced |-> FALSE,
     queue |-> <<>>, listed |-> <<>>, listOk |-> FALSE,
     nCreated |-> 0, nUpdated |-> 0,
     recalculated |-> FALSE, wrote |-> FALSE, resp |-> 0,
     todo |-> <<>>, results |-> NoResults, acct |-> NoAccount,
     has_more |-> FALSE, requests |-> 0,
     pre |-> [donations |-> {}, campaign |-> <<>>],
     startNo |-> 0, solo |-> FALSE]

\* A worker is running a handler until the response is sent ("done").
Running(q) == proc[q].pc \notin {"idle", "done"}

\* A request is taken by a worker that is not running a handler; the first
\* request goes to the first worker.
Free(p) == ~Running(p) /\ (p = "p2" => proc["p1"].pc # "idle")

\* A handler starts: it remembers the database it started from.
Begin(p, kind) ==
    [IdleProc EXCEPT !.kind = kind,
                     !.pre = [donations |-> donations, campaign |-> campaign],
                     !.startNo = opCount + 1,
                     !.solo = \A q \in Procs \ {p} : ~Running(q)]

Respond(me, code) == [me EXCEPT !.pc = "done", !.resp = code]

(***************************************************************************)
(* The ledger                                                              *)
(***************************************************************************)
RECURSIVE SumAmounts(_)
SumAmounts(rows) ==
    IF rows = {} THEN 0
    ELSE LET d == CHOOSE x \in rows : TRUE
         IN d.amount + SumAmounts(rows \ {d})

\* Variant: the sum over the whole table, without the campaign filter.
DonationSumUnfiltered(rows, c) == SumAmounts(rows)

\* sum(Decimal(str(d.amount)) for d in Donation.objects.filter(campaign=campaign))
DonationSum(rows, c) == SumAmounts({d \in rows : d.campaign = c})

\* Variant: a reference column without the unique constraint.
UniqueConflictNever(rows, r) == FALSE

\* Donation.stripe_payment_intent_id is unique: an INSERT of a taken reference fails.
UniqueConflict(rows, r) == \E d \in rows : d.ref = r

\* create_or_update_donation is entered: get_or_create's SELECT comes next.
Call(me, ref, amount) ==
    [me EXCEPT !.pc = "get", !.ref = ref, !.amount = amount, !.don = NoDonation,
               !.created = FALSE, !.updated = FALSE, !.raced = FALSE]

\* The sweep's loops: the next listed item, or the final recalculation.
NextItem(me) ==
    IF me.queue = <<>>
    THEN [me EXCEPT !.pc = "recalc"]
    ELSE Call(me, Head(me.queue).ref, Head(me.queue).amount)

\* create_or_update_donation has returned (donation, created, updated) to its caller.
AfterCall(me) ==
    IF me.kind = "sweep"
    THEN NextItem([me EXCEPT
             !.nCreated = @ + (IF me.created THEN 1 ELSE 0),
             !.nUpdated = @ + (IF ~me.created /\ me.updated THEN 1 ELSE 0),
             !.queue = Tail(@)])
    ELSE IF me.created THEN [me EXCEPT !.pc = "inc"]
    ELSE [me EXCEPT !.pc = "recalc"]

\* Variant: the existing row is saved without comparing the amounts.
ExistingAlwaysSaved(me, d) ==
    [me EXCEPT !.don = d, !.created = FALSE, !.pc = "dsave"]

\* The reference already has row d: created is False, the amounts are compared.
Existing(me, d) ==
    LET m == [me EXCEPT !.don = d, !.created = FALSE]
    IN IF d.amount # me.amount THEN [m EXCEPT !.pc = "dsave"] ELSE AfterCall(m)

\* get_or_create: SELECT ... WHERE stripe_payment_intent_id = ref
GetDonation(p) ==
    /\ proc[p].pc = "get"
    /\ LET me == proc[p]
           rows == {d \in donations : d.ref = me.ref}
       IN proc' = [proc EXCEPT ![p] =
                     IF rows = {} THEN [me EXCEPT !.pc = "ins"]
                     ELSE Existing(me, CHOOSE d \in rows : TRUE)]
    /\ UNCHANGED <<donations, campaign, account, settings, history, reply, lastId, opCount>>

\* Variant: a plain create(), whose IntegrityError ends the request with 500.
CreateDonationNoRetry(p) ==
    /\ proc[p].pc = "ins"
    /\ LET me == proc[p]
           row == [id |-> lastId.donation + 1, ref |-> me.ref,
                   campaign |-> me.c, amount |-> me.amount]
       IN IF \E d \in donations : d.ref = me.ref
          THEN /\ proc' = [proc EXCEPT ![p] = Respond([me EXCEPT !.raced = TRUE], 500)]
               /\ UNCHANGED <<donations, lastId>>
          ELSE /\ donations' = donations \cup {row}
               /\ lastId' = [lastId EXCEPT !.donation = row.id]
               /\ proc' = [proc EXCEPT ![p] =
                     AfterCall([me EXCEPT !.don = row, !.created = TRUE])]
    /\ UNCHANGED <<campaign, account, settings, history, reply, opCount>>

\* get_or_create: INSERT; on IntegrityError the row is read again.
CreateDonation(p) ==
    /\ proc[p].pc = "ins"
    /\ LET me == proc[p]
           row == [id |-> lastId.donation + 1, ref |-> me.ref,
                   campaign |-> me.c, amount |-> me.amount]
       IN IF UniqueConflict(donations, me.ref)
          THEN /\ proc' = [proc EXCEPT ![p] =
                     Existing([me EXCEPT !.raced = TRUE],
                              CHOOSE d \in donations : d.ref = me.ref)]
               /\ UNCHANGED <<donations, lastId>>
          ELSE /\ donations' = donations \cup {row}
               /\ lastId' = [lastId EXCEPT !.donation = row.id]
               /\ proc' = [proc EXCEPT ![p] =
                     AfterCall([me EXCEPT !.don = row, !.created = TRUE])]
    /\ UNCHANGED <<campaign, account, settings, history, reply, opCount>>

\* Variant: the new amount is set on the instance and never saved.
SaveDonationUnsaved(p) ==
    /\ proc[p].pc = "dsave"
    /\ LET me == proc[p]
           row == [me.don EXCEPT !.amount = me.amount]
       IN proc' = [proc EXCEPT ![p] =
                AfterCall([me EXCEPT !.don = row, !.updated = TRUE])]
    /\ UNCHANGED <<donations, campaign, account, settings, history, reply, lastId, opCount>>

\* donation.amount = amount; donation.save()
SaveDonation(p) ==
    /\ proc[p].pc = "dsave"
    /\ LET me == proc[p]
           row == [me.don EXCEPT !.amount = me.amount]
       IN /\ donations' = {IF d.id = row.id THEN row ELSE d : d \in donations}
          /\ proc' = [proc EXCEPT ![p] =
                AfterCall([me EXCEPT !.don = row, !.updated = TRUE])]
    /\ UNCHANGED <<campaign, account, settings, history, reply, lastId, opCount>>

\* Variant: the total is set to the amount of the new donation.
IncrementCampaignOverwrite(p) ==
    /\ proc[p].pc = "inc"
    /\ LET me == proc[p]
           row == [me.camp EXCEPT !.current_amount = me.amount]
       IN /\ campaign' = [campaign EXCEPT ![me.c] = row]
          /\ proc' = [proc EXCEPT ![p] = Respond([me EXCEPT !.camp = row], 200)]
    /\ UNCHANGED <<donations, account, settings, history, reply, lastId, opCount>>

\* campaign.current_amount = campaign.current_amount + amount; campaign.save()
IncrementCampaign(p) ==
    /\ proc[p].pc = "inc"
    /\ LET me == proc[p]
           row == [me.camp EXCEPT !.current_amount = @ + me.amount]
       IN /\ campaign' = [campaign EXCEPT ![me.c] = row]
          /\ proc' = [proc EXCEPT ![p] = Respond([me EXCEPT !.camp = row], 200)]
    /\ UNCHANGED <<donations, account, settings, history, reply, lastId, opCount>>

\* recalculate_campaign_amount: the SELECT of the campaign's donations and the compare
recalculate_campaign_amount(p) ==
    /\ proc[p].pc = "recalc"
    /\ LET me == [proc[p] EXCEPT !.recalculated = TRUE]
           total_donated == DonationSum(donations, me.c)
       IN proc' = [proc EXCEPT ![p] =
                     IF me.camp.current_amount # total_donated
                     THEN [me EXCEPT !.pc = "csave",
                                     !.camp.current_amount = total_donated]
                     ELSE Respond(me, 200)]
    /\ UNCHANGED <<donations, campaign, account, settings, history, reply, lastId, opCount>>

\* recalculate_campaign_amount: campaign.save()
SaveCampaign(p) ==
    /\ proc[p].pc = "csave"
    /\ LET me == proc[p]
       IN /\ campaign' = [campaign EXCEPT ![me.c] = me.camp]
          /\ proc' = [proc EXCEPT ![p] = Respond([me EXCEPT !.wrote = TRUE], 200)]
    /\ UNCHANGED <<donations, account, settings, history, reply, lastId, opCount>>

(***************************************************************************)
(* Reconciliation entry points                                             *)
(***************************************************************************)

\* CampaignViewSet.get_queryset: the campaigns user u may address.
Visible(u, c) ==
    /\ c \in DOMAIN campaign
    /\ \/ IsModerator(u)
       \/ campaign[c].status = "approved" /\ campaign[c].stripe_ready
       \/ campaign[c].created_by = u

\* The payloads of checkout.session.completed events.  STRIPE_WEBHOOK_SECRET is
\* not among the settings, so the handler takes any JSON body as the event.
WebhookEvents ==
    { [id |-> s, has_campaign_id |-> h, campaign_id |-> c, amount_total |-> a,
       payment_intent |-> StripeSession(s).payment_intent] :
         s \in {"cs_a", "cs_b"}, h \in BOOLEAN, c \in {0, 1, 2, 9}, a \in {0, 3000, 5000} }

\* Variant: an event for a campaign that does not exist is acknowledged.
StartWebhookSilent(p, ev) ==
    /\ Free(p)
    /\ opCount' = opCount + 1
    /\ LET me == [Begin(p, "webhook") EXCEPT !.sid = ev.id]
           amount == DecimalFromMinor(ev.amount_total)
           payment_intent == extract_payment_intent_from_session(ev, "")
       IN proc' = [proc EXCEPT ![p] =
            IF ~ev.has_campaign_id THEN Respond(me, 500)
            ELSE IF ev.campaign_id = 0 THEN Respond(me, 400)
            ELSE IF amount <= 0 THEN Respond(me, 400)
            ELSE IF ev.campaign_id \notin DOMAIN campaign THEN Respond(me, 200)
            ELSE Call([me EXCEPT !.c = ev.campaign_id,
                                 !.camp = campaign[ev.campaign_id]],
                      payment_intent, amount)]
    /\ UNCHANGED <<donations, campaign, account, settings, history, reply, lastId>>

\* stripe_webhook, checkout.session.completed: from the payload to Campaign.objects.get
StartWebhook(p, ev) ==
    /\ Free(p)
    /\ opCount' = opCount + 1
    /\ LET me == [Begin(p, "webhook") EXCEPT !.sid = ev.id]
           amount == DecimalFromMinor(ev.amount_total)
           payment_intent == extract_payment_intent_from_session(ev, "")
       IN proc' = [proc EXCEPT ![p] =
            IF ~ev.has_campaign_id THEN Respond(me, 500)
            ELSE IF ev.campaign_id = 0 THEN Respond(me, 400)
            ELSE IF amount <= 0 THEN Respond(me, 400)
            ELSE IF ev.campaign_id \notin DOMAIN campaign THEN Respond(me, 404)
            ELSE Call([me EXCEPT !.c = ev.campaign_id,
                                 !.camp = campaign[ev.campaign_id]],
                      payment_intent, amount)]
    /\ UNCHANGED <<donations, campaign, account, settings, history, reply, lastId>>

\* Variant: the payment status of the session is not looked at.
ConfirmSessionAnyStatus(me, campaign_id, session, session_id) ==
    Call([me EXCEPT !.c = campaign_id, !.camp = campaign[campaign_id]],
         extract_payment_intent_from_session(session, session_id),
         DecimalFromMinor(session.amount_total))

\* confirm_payment, once the session is retrieved: the payment_status test
ConfirmSession(me, campaign_id, session, session_id) ==
    IF session.payment_status = "paid"
    THEN Call([me EXCEPT !.c = campaign_id, !.camp = campaign[campaign_id]],
              extract_payment_intent_from_session(session, session_id),
              DecimalFromMinor(session.amount_total))
    ELSE Respond(me, 400)

\* DonationViewSet.confirm_payment: resolving the campaign and the session.
\* campaign_id = 0 stands for a request without campaign_id.
StartConfirm(p, session_id, campaign_id) ==
    /\ Free(p)
    /\ opCount' = opCount + 1
    /\ LET me == [Begin(p, "confirm") EXCEPT !.sid = session_id]
           known == session_id \in SessionIds
           session == StripeSession(session_id)
       IN proc' = [proc EXCEPT ![p] =
            IF session_id = "" THEN Respond(me, 400)
            ELSE IF campaign_id # 0
            THEN IF campaign_id \notin DOMAIN campaign THEN Respond(me, 404)
                 ELSE LET user_account ==
                              get_user_stripe_account(campaign[campaign_id].created_by)
                          retrieved ==
                              /\ known
                              /\ session.account =
                                   (IF user_account.has
                                    THEN user_account.stripe_account_id ELSE "")
                      IN IF retrieved
                         THEN ConfirmSession(me, campaign_id, session, session_id)
                         ELSE Respond(me, 400)
            ELSE IF ~(known /\ session.account = "") THEN Respond(me, 400)
            ELSE IF session.campaign_id = 0 THEN Respond(me, 400)
            ELSE IF session.campaign_id \notin DOMAIN campaign THEN Respond(me, 404)
            ELSE ConfirmSession(me, session.campaign_id, session, session_id)]
    /\ UNCHANGED <<donations, campaign, account, settings, history, reply, lastId>>

\* One page holds every object of the scenario; a processor error ends the
\* listing loop with what was collected before it: nothing.
list_stripe_payment_intents_for_campaign(stripe_account_id, campaign_id, ok) ==
    IF ok
    THEN SelectSeq(StripePaymentIntentList,
                   LAMBDA pi : /\ pi.account = stripe_account_id
                               /\ pi.campaign_id = campaign_id
                               /\ pi.status = "succeeded")
    ELSE <<>>

list_stripe_checkout_sessions_for_campaign(stripe_account_id, campaign_id, ok) ==
    IF ok
    THEN SelectSeq(StripeSessionList,
                   LAMBDA s : /\ s.account = stripe_account_id
                              /\ s.campaign_id = campaign_id
                              /\ s.payment_status = "paid")
    ELSE <<>>

\* The (reference, amount) pairs process_payment_intents_for_donations records.
process_payment_intents_for_donations(payment_intents) ==
    [i \in DOMAIN payment_intents |->
        [ref |-> <<"", payment_intents[i].id>>,
         amount |-> DecimalFromMinor(payment_intents[i].amount)]]

\* The pairs process_checkout_sessions_for_donations records: amount <= 0 is skipped.
process_checkout_sessions_for_donations(checkout_sessions) ==
    SelectSeq([i \in DOMAIN checkout_sessions |->
                  [ref |-> extract_payment_intent_from_session(checkout_sessions[i], ""),
                   amount |-> DecimalFromMinor(checkout_sessions[i].amount_total)]],
              LAMBDA it : it.amount > 0)

\* CampaignViewSet.sync_payments up to the first ledger write.
StartSync(p, u, campaign_id, piOk, csOk) ==
    /\ Free(p)
    /\ opCount' = opCount + 1
    /\ LET me == Begin(p, "sweep")
           user_account == get_user_stripe_account(campaign[campaign_id].created_by)
           items ==
               process_payment_intents_for_donations(
                   list_stripe_payment_intents_for_campaign(
                       user_account.stripe_account_id, campaign_id, piOk))
               \o process_checkout_sessions_for_donations(
                   list_stripe_checkout_sessions_for_campaign(
                       user_account.stripe_account_id, campaign_id, csOk))
       IN proc' = [proc EXCEPT ![p] =
            IF ~Visible(u, campaign_id) THEN Respond(me, 404)
            ELSE IF ~(u = campaign[campaign_id].created_by \/ IsModerator(u))
            THEN Respond(me, 403)
            ELSE IF ~settings.STRIPE_SECRET_KEY THEN Respond(me, 500)
            ELSE IF ~user_account.has THEN Respond(me, 400)
            ELSE NextItem([me EXCEPT !.c = campaign_id, !.camp = campaign[campaign_id],
                                     !.queue = items, !.listed = items,
                                     !.listOk = piOk /\ csOk])]
    /\ UNCHANGED <<donations, campaign, account, settings, history, reply, lastId>>

(***************************************************************************)
(* Specifications of the reconciliation engine                             *)
(***************************************************************************)
ReadyAccount ==
    [has |-> TRUE, stripe_account_id |-> "acct_alice", charges_enabled |-> TRUE,
     payouts_enabled |-> TRUE, details_submitted |-> TRUE, onboarding_url |-> FALSE]

\* Two approved campaigns of one owner whose payment account is ready; no donations.
Init ==
    /\ donations = {}
    /\ campaign = [c \in {1, 2} |->
                     [created_by |-> "alice", status |-> "approved", stripe_ready |-> TRUE,
                      moderation_notes |-> "", current_amount |-> 0]]
    /\ account = [u \in Users |-> IF u = "alice" THEN ReadyAccount ELSE NoAccount]
    /\ settings = [STRIPE_SECRET_KEY |-> TRUE, STRIPE_WEBHOOK_SECRET |-> FALSE]
    /\ history = <<>>
    /\ reply = NoReply
    /\ lastId = [campaign |-> 2, donation |-> 0]
    /\ proc = [p \in Procs |-> IdleProc]
    /\ opCount = 0

Start(p) ==
    \/ \E ev \in WebhookEvents : StartWebhook(p, ev)
    \/ \E sid \in SessionIds \cup {""}, cid \in {0, 1, 2, 9} : StartConfirm(p, sid, cid)
    \/ \E u \in Users, cid \in {1, 2, 9}, piOk \in BOOLEAN, csOk \in BOOLEAN :
          StartSync(p, u, cid, piOk, csOk)

Step(p) ==
    \/ GetDonation(p)
    \/ CreateDonation(p)
    \/ SaveDonation(p)
    \/ IncrementCampaign(p)
    \/ recalculate_campaign_amount(p)
    \/ SaveCampaign(p)

\* Requests are served by concurrent workers.
Next ==
    \E p \in Procs :
        \/ opCount < MaxConcurrentOps /\ Start(p)
        \/ Step(p)

Spec == Init /\ [][Next]_vars

\* Requests are served one after the other.
NextSeq ==
    \/ opCount < MaxOps /\ ~Running("p2") /\ Start("p1")
    \/ Step("p1")

SpecSeq == Init /\ [][NextSeq]_vars

(***************************************************************************)
(* Campaign lifecycle and payment accounts.  These handlers are short:     *)
(* each is taken as one step from request to response.                     *)
(***************************************************************************)

\* A request field that the payload does not carry.
NoValue == "<absent>"

Notes == {"", "n"}

\* What the processor reports for a connected account.
StripeAccountStates ==
    { [charges_enabled |-> FALSE, payouts_enabled |-> FALSE, details_submitted |-> FALSE],
      [charges_enabled |-> TRUE,  payouts_enabled |-> FALSE, details_submitted |-> TRUE],
      [charges_enabled |-> TRUE,  payouts_enabled |-> TRUE,  details_submitted |-> TRUE] }

\* The id the processor gives to the account it creates for user u.
StripeAccountId(u) ==
    IF u = "alice" THEN "acct_alice" ELSE IF u = "bob" THEN "acct_bob" ELSE "acct_mod"

Answer(op, u, c, was, code) == [op |-> op, user |-> u, c |-> c, was |-> was, code |-> code]

\* UserStripeAccount.update_from_stripe_account
update_from_stripe_account(a, account_data) ==
    LET b == [a EXCEPT !.charges_enabled = account_data.charges_enabled,
                       !.payouts_enabled = account_data.payouts_enabled,
                       !.details_submitted = account_data.details_submitted]
    IN IF is_ready(b) /\ b.onboarding_url THEN [b EXCEPT !.onboarding_url = FALSE] ELSE b

\* sync_user_stripe_account: stripe.Account.retrieve, then the update
sync_user_stripe_account(a, retrieved) ==
    LET b == update_from_stripe_account(a, retrieved)
    IN IF is_ready(b) /\ b.onboarding_url THEN [b EXCEPT !.onboarding_url = FALSE] ELSE b

\* ensure_user_stripe_account, when the processor creates the account
ensure_user_stripe_account(u, created) ==
    IF account[u].has THEN account[u]
    ELSE [NoAccount EXCEPT !.has = TRUE,
                           !.stripe_account_id = StripeAccountId(u),
                           !.charges_enabled = created.charges_enabled,
                           !.payouts_enabled = created.payouts_enabled,
                           !.details_submitted = created.details_submitted]

\* Campaign.objects.filter(created_by=user).update(stripe_ready=ready)
CascadeReady(u, ready) ==
    [c \in DOMAIN campaign |->
        IF campaign[c].created_by = u
        THEN [campaign[c] EXCEPT !.stripe_ready = ready]
        ELSE campaign[c]]

\* INSERT of a row under a new id.
Insert(table, id, row) ==
    [x \in DOMAIN table \cup {id} |-> IF x = id THEN row ELSE table[x]]

\* CampaignViewSet.perform_create: the serializer has inserted the row before
\* the payment account is looked at.
PerformCreate(u, requested, stripe, createOk, syncOk) ==
    LET c == lastId.campaign + 1
        row == [NoCampaign EXCEPT !.created_by = u, !.status = requested]
        ensured == ensure_user_stripe_account(u, stripe)
        stripe_account == IF syncOk THEN sync_user_stripe_account(ensured, stripe)
                          ELSE ensured
        ready == is_ready(stripe_account)
    IN /\ IF \/ ~settings.STRIPE_SECRET_KEY
             \/ ~account[u].has /\ ~createOk
          THEN /\ campaign' = Insert(campaign, c, row)
               /\ reply' = Answer("create", u, c, "", 400)
               /\ UNCHANGED account
          ELSE /\ campaign' = Insert(campaign, c,
                      [row EXCEPT !.stripe_ready = ready,
                                  !.status = IF ~ready /\ requested # "draft"
                                             THEN "draft" ELSE requested])
               /\ account' = [account EXCEPT ![u] = stripe_account]
               /\ reply' = Answer("create", u, c, "", 201)
       /\ lastId' = [lastId EXCEPT !.campaign = c]
       /\ UNCHANGED <<donations, settings, history, proc, opCount>>

\* CampaignViewSet.perform_update as it would be without the moderation reset.
PerformUpdateWithoutReset(u, c, status, moderation_notes) ==
    LET instance == campaign[c]
        new_status == IF status # NoValue THEN status ELSE instance.status
        was == instance.status
    IN /\ IF ~Visible(u, c)
          THEN /\ reply' = Answer("update", u, c, was, 404)
               /\ UNCHANGED campaign
          ELSE IF instance.created_by # u /\ ~IsModerator(u)
          THEN /\ reply' = Answer("update", u, c, was, 403)
               /\ UNCHANGED campaign
          ELSE IF new_status \in {"pending", "approved"} /\ ~instance.stripe_ready
          THEN /\ reply' = Answer("update", u, c, was, 400)
               /\ UNCHANGED campaign
          ELSE /\ reply' = Answer("update", u, c, was, 200)
               /\ campaign' = [campaign EXCEPT ![c] =
                     [instance EXCEPT
                             !.status = new_status,
                             !.moderation_notes =
                                 IF moderation_notes # NoValue
                                 THEN moderation_notes ELSE @]]
       /\ UNCHANGED <<donations, account, settings, history, lastId, proc, opCount>>

\* Variant: perform_update without the test of the requester.
PerformUpdateByAnyone(u, c, status, moderation_notes) ==
    LET instance == campaign[c]
        new_status == IF status # NoValue THEN status ELSE instance.status
        was == instance.status
    IN /\ IF ~Visible(u, c)
          THEN /\ reply' = Answer("update", u, c, was, 404)
               /\ UNCHANGED campaign
          ELSE IF new_status \in {"pending", "approved"} /\ ~instance.stripe_ready
          THEN /\ reply' = Answer("update", u, c, was, 400)
               /\ UNCHANGED campaign
          ELSE /\ reply' = Answer("update", u, c, was, 200)
               /\ campaign' = [campaign EXCEPT ![c] =
                     IF instance.status \in {"approved", "rejected"}
                     THEN [instance EXCEPT !.status = "pending", !.moderation_notes = ""]
                     ELSE [instance EXCEPT
                             !.status = new_status,
                             !.moderation_notes =
                                 IF moderation_notes # NoValue
                                 THEN moderation_notes ELSE @]]
       /\ UNCHANGED <<donations, account, settings, history, lastId, proc, opCount>>

\* CampaignViewSet.perform_update (PUT and PATCH of a campaign)
PerformUpdate(u, c, status, moderation_notes) ==
    LET instance == campaign[c]
        new_status == IF status # NoValue THEN status ELSE instance.status
        was == instance.status
    IN /\ IF ~Visible(u, c)
          THEN /\ reply' = Answer("update", u, c, was, 404)
               /\ UNCHANGED campaign
          ELSE IF instance.created_by # u /\ ~IsModerator(u)
          THEN /\ reply' = Answer("update", u, c, was, 403)
               /\ UNCHANGED campaign
          ELSE IF new_status \in {"pending", "approved"} /\ ~instance.stripe_ready
          THEN /\ reply' = Answer("update", u, c, was, 400)
               /\ UNCHANGED campaign
          ELSE /\ reply' = Answer("update", u, c, was, 200)
               /\ campaign' = [campaign EXCEPT ![c] =
                     IF instance.status \in {"approved", "rejected"}
                     THEN [instance EXCEPT !.status = "pending", !.moderation_notes = ""]
                     ELSE [instance EXCEPT
                             !.status = new_status,
                             !.moderation_notes =
                                 IF moderation_notes # NoValue
                                 THEN moderation_notes ELSE @]]
       /\ UNCHANGED <<donations, account, settings, history, lastId, proc, opCount>>

\* CampaignViewSet.suspend
Suspend(u, c) ==
    LET was == campaign[c].status
    IN /\ IF ~Visible(u, c)
          THEN /\ reply' = Answer("suspend", u, c, was, 404)
               /\ UNCHANGED campaign
          ELSE IF campaign[c].created_by # u /\ ~IsModerator(u)
          THEN /\ reply' = Answer("suspend", u, c, was, 403)
               /\ UNCHANGED campaign
          ELSE /\ reply' = Answer("suspend", u, c, was, 200)
               /\ campaign' = [campaign EXCEPT ![c].status = "suspended"]
       /\ UNCHANGED <<donations, account, settings, history, lastId, proc, opCount>>

\* CampaignViewSet.cancel
Cancel(u, c) ==
    LET was == campaign[c].status
    IN /\ IF ~Visible(u, c)
          THEN /\ reply' = Answer("cancel", u, c, was, 404)
               /\ UNCHANGED campaign
          ELSE IF campaign[c].created_by # u
          THEN /\ reply' = Answer("cancel", u, c, was, 403)
               /\ UNCHANGED campaign
          ELSE /\ reply' = Answer("cancel", u, c, was, 200)
               /\ campaign' = [campaign EXCEPT ![c].status = "cancelled"]
       /\ UNCHANGED <<donations, account, settings, history, lastId, proc, opCount>>

\* CampaignViewSet.destroy (ModelViewSet's DELETE): the row goes, and with it
\* the rows that reference it with on_delete=CASCADE.
DestroyCampaign(u, c) ==
    LET was == campaign[c].status
    IN /\ IF ~Visible(u, c)
          THEN /\ reply' = Answer("destroy", u, c, was, 404)
               /\ UNCHANGED <<campaign, history, donations>>
          ELSE /\ reply' = Answer("destroy", u, c, was, 204)
               /\ campaign' = [x \in DOMAIN campaign \ {c} |-> campaign[x]]
               /\ history' = SelectSeq(history, LAMBDA h : h.campaign # c)
               /\ donations' = {d \in donations : d.campaign # c}
       /\ UNCHANGED <<account, settings, lastId, proc, opCount>>

\* A ModerationHistory row.
HistoryRow(c, u, action, notes) ==
    [campaign |-> c, moderator |-> u, action |-> action, notes |-> notes]

\* CampaignViewSet.resume as it would be without the stripe_ready check.
ResumeWithoutReadiness(u, c, moderation_notes) ==
    LET was == campaign[c].status
        notes == IF moderation_notes # NoValue
                 THEN moderation_notes ELSE campaign[c].moderation_notes
    IN IF ~IsModerator(u)
       THEN /\ reply' = Answer("resume", u, c, was, 403)
            /\ UNCHANGED <<donations, campaign, account, settings, history, lastId, proc, opCount>>
       ELSE IF campaign[c].status \notin {"suspended", "cancelled"}
       THEN /\ reply' = Answer("resume", u, c, was, 400)
            /\ UNCHANGED <<donations, campaign, account, settings, history, lastId, proc, opCount>>
       ELSE /\ reply' = Answer("resume", u, c, was, 200)
            /\ campaign' = [campaign EXCEPT ![c].status = "approved",
                                            ![c].moderation_notes = notes]
            /\ history' = Append(history, HistoryRow(c, u, "resume", notes))
            /\ UNCHANGED <<donations, account, settings, lastId, proc, opCount>>

\* CampaignViewSet.resume
Resume(u, c, moderation_notes) ==
    LET was == campaign[c].status
        notes == IF moderation_notes # NoValue
                 THEN moderation_notes ELSE campaign[c].moderation_notes
    IN IF ~IsModerator(u)
       THEN /\ reply' = Answer("resume", u, c, was, 403)
            /\ UNCHANGED <<donations, campaign, account, settings, history, lastId, proc, opCount>>
       ELSE IF campaign[c].status \notin {"suspended", "cancelled"} \/ ~campaign[c].stripe_ready
       THEN /\ reply' = Answer("resume", u, c, was, 400)
            /\ UNCHANGED <<donations, campaign, account, settings, history, lastId, proc, opCount>>
       ELSE /\ reply' = Answer("resume", u, c, was, 200)
            /\ campaign' = [campaign EXCEPT ![c].status = "approved",
                                            ![c].moderation_notes = notes]
            /\ history' = Append(history, HistoryRow(c, u, "resume", notes))
            /\ UNCHANGED <<donations, account, settings, lastId, proc, opCount>>

\* CampaignViewSet.approve as it would be without the stripe_ready check.
ApproveWithoutReadiness(u, c, moderation_notes) ==
    LET was == campaign[c].status
    IN IF ~IsModerator(u)
       THEN /\ reply' = Answer("approve", u, c, was, 403)
            /\ UNCHANGED <<donations, campaign, account, settings, history, lastId, proc, opCount>>
       ELSE IF campaign[c].status # "pending"
       THEN /\ reply' = Answer("approve", u, c, was, 400)
            /\ UNCHANGED <<donations, campaign, account, settings, history, lastId, proc, opCount>>
       ELSE /\ reply' = Answer("approve", u, c, was, 200)
            /\ campaign' = [campaign EXCEPT ![c].status = "approved",
                                            ![c].moderation_notes = moderation_notes]
            /\ history' = Append(history, HistoryRow(c, u, "approve", moderation_notes))
            /\ UNCHANGED <<donations, account, settings, lastId, proc, opCount>>

\* CampaignViewSet.approve
Approve(u, c, moderation_notes) ==
    LET was == campaign[c].status
    IN IF ~IsModerator(u)
       THEN /\ reply' = Answer("approve", u, c, was, 403)
            /\ UNCHANGED <<donations, campaign, account, settings, history, lastId, proc, opCount>>
       ELSE IF ~campaign[c].stripe_ready \/ campaign[c].status # "pending"
       THEN /\ reply' = Answer("approve", u, c, was, 400)
            /\ UNCHANGED <<donations, campaign, account, settings, history, lastId, proc, opCount>>
       ELSE /\ reply' = Answer("approve", u, c, was, 200)
            /\ campaign' = [campaign EXCEPT ![c].status = "approved",
                                            ![c].moderation_notes = moderation_notes]
            /\ history' = Append(history, HistoryRow(c, u, "approve", moderation_notes))
            /\ UNCHANGED <<donations, account, settings, lastId, proc, opCount>>

\* CampaignViewSet.reject
Reject(u, c, moderation_notes) ==
    LET was == campaign[c].status
    IN IF ~IsModerator(u)
       THEN /\ reply' = Answer("reject", u, c, was, 403)
            /\ UNCHANGED <<donations, campaign, account, settings, history, lastId, proc, opCount>>
       ELSE IF campaign[c].status # "pending" \/ moderation_notes = ""
       THEN /\ reply' = Answer("reject", u, c, was, 400)
            /\ UNCHANGED <<donations, campaign, account, settings, history, lastId, proc, opCount>>
       ELSE /\ reply' = Answer("reject", u, c, was, 200)
            /\ campaign' = [campaign EXCEPT ![c].status = "rejected",
                                            ![c].moderation_notes = moderation_notes]
            /\ history' = Append(history, HistoryRow(c, u, "reject", moderation_notes))
            /\ UNCHANGED <<donations, account, settings, lastId, proc, opCount>>

\* moderation_views.moderate_campaign (the moderation dashboard, POST): every
\* outcome is a redirect.
moderate_campaign(u, c, action, notes) ==
    LET was == campaign[c].status
    IN /\ reply' = Answer("moderate", u, c, was, 302)
       /\ IF IsModerator(u) /\ campaign[c].status = "pending"
             /\ action \in {"approve", "reject"}
          THEN /\ campaign' = [campaign EXCEPT
                     ![c].status = IF action = "approve" THEN "approved" ELSE "rejected",
                     ![c].moderation_notes = notes]
               /\ history' = Append(history, HistoryRow(c, u, action, notes))
          ELSE UNCHANGED <<campaign, history>>
       /\ UNCHANGED <<donations, account, settings, lastId, proc, opCount>>

\* Variant: the account is updated, the campaigns are not.
AccountUpdatedNoCascade(account_id, account_data) ==
    /\ reply' = Answer("account.updated", "", 0, "", 200)
    /\ IF \E u \in Users : account[u].has /\ account[u].stripe_account_id = account_id
       THEN LET u == CHOOSE v \in Users :
                         account[v].has /\ account[v].stripe_account_id = account_id
                user_account == update_from_stripe_account(account[u], account_data)
            IN /\ account' = [account EXCEPT ![u] = user_account]
               /\ UNCHANGED campaign
       ELSE UNCHANGED <<account, campaign>>
    /\ UNCHANGED <<donations, settings, history, lastId, proc, opCount>>

\* stripe_webhook, account.updated
AccountUpdated(account_id, account_data) ==
    /\ reply' = Answer("account.updated", "", 0, "", 200)
    /\ IF \E u \in Users : account[u].has /\ account[u].stripe_account_id = account_id
       THEN LET u == CHOOSE v \in Users :
                         account[v].has /\ account[v].stripe_account_id = account_id
                user_account == update_from_stripe_account(account[u], account_data)
            IN /\ account' = [account EXCEPT ![u] = user_account]
               /\ campaign' = CascadeReady(u, is_ready(user_account))
       ELSE UNCHANGED <<account, campaign>>
    /\ UNCHANGED <<donations, settings, history, lastId, proc, opCount>>

\* UserViewSet.stripe_status
stripe_status(u, retrieved, syncOk) ==
    /\ reply' = Answer("stripe_status", u, 0, "", 200)
    /\ IF account[u].has
       THEN LET user_account == IF syncOk
                                THEN sync_user_stripe_account(account[u], retrieved)
                                ELSE account[u]
            IN /\ account' = [account EXCEPT ![u] = user_account]
               /\ campaign' = CascadeReady(u, is_ready(user_account))
       ELSE UNCHANGED <<account, campaign>>
    /\ UNCHANGED <<donations, settings, history, lastId, proc, opCount>>

\* A fresh deployment: no campaigns, no payment accounts; the processor key
\* may or may not be configured.
InitLife ==
    /\ donations = {}
    /\ campaign = <<>>
    /\ account = [u \in Users |-> NoAccount]
    /\ settings \in {[STRIPE_SECRET_KEY |-> k, STRIPE_WEBHOOK_SECRET |-> FALSE] : k \in BOOLEAN}
    /\ history = <<>>
    /\ reply = NoReply
    /\ lastId = [campaign |-> 0, donation |-> 0]
    /\ proc = [p \in Procs |-> IdleProc]
    /\ opCount = 0

\* The users who open campaigns.
Owners == {"alice"}

NextLife ==
    \/ \E u \in Owners, requested \in Statuses, stripe \in StripeAccountStates,
          createOk \in BOOLEAN, syncOk \in BOOLEAN :
          lastId.campaign < MaxCampaigns /\ PerformCreate(u, requested, stripe, createOk, syncOk)
    \/ \E u \in Users, c \in DOMAIN campaign, status \in Statuses \cup {NoValue},
          notes \in {NoValue, "n"} : PerformUpdate(u, c, status, notes)
    \/ \E u \in Users, c \in DOMAIN campaign : Suspend(u, c)
    \/ \E u \in Users, c \in DOMAIN campaign : Cancel(u, c)
    \/ \E u \in Users, c \in DOMAIN campaign : DestroyCampaign(u, c)
    \/ \E u \in Users, c \in DOMAIN campaign, notes \in Notes \cup {NoValue} :
          Len(history) < MaxHistory /\ Resume(u, c, notes)
    \/ \E u \in Users, c \in DOMAIN campaign, notes \in Notes :
          Len(history) < MaxHistory /\ Approve(u, c, notes)
    \/ \E u \in Users, c \in DOMAIN campaign, notes \in Notes :
          Len(history) < MaxHistory /\ Reject(u, c, notes)
    \/ \E u \in Users, c \in DOMAIN campaign, action \in {"approve", "reject", "publish"},
          notes \in Notes :
          Len(history) < MaxHistory /\ moderate_campaign(u, c, action, notes)
    \/ \E u \in Users, stripe \in StripeAccountStates :
          AccountUpdated(StripeAccountId(u), stripe)
    \/ \E u \in Users, stripe \in StripeAccountStates, syncOk \in BOOLEAN :
          stripe_status(u, stripe, syncOk)

SpecLife == InitLife /\ [][NextLife]_vars

(***************************************************************************)
(* The donations endpoint: DonationViewSet is a ModelViewSet, so besides   *)
(* the reconciliation actions it serves POST, PUT, PATCH and DELETE of     *)
(* Donation rows to every authenticated user.                              *)
(***************************************************************************)

\* The bodies of a PUT or PATCH of a donation: the writable fields of
\* DonationSerializer, each present or not.
DonationBodies ==
    {[amount |-> 100], [campaign_id |-> 2], [campaign_id |-> 2, amount |-> 100]}

\* DonationViewSet.create: the row is inserted with the default, empty
\* stripe_payment_intent_id, which the unique constraint admits once.
DonationCreate(u, campaign_id, amount) ==
    LET row == [id |-> lastId.donation + 1, ref |-> NoRef,
                campaign |-> campaign_id, amount |-> amount]
    IN /\ IF campaign_id \notin DOMAIN campaign \/ (\E d \in donations : d.ref = NoRef)
          THEN /\ reply' = Answer("donation.create", u, campaign_id, "", 500)
               /\ UNCHANGED <<donations, lastId>>
          ELSE /\ reply' = Answer("donation.create", u, campaign_id, "", 201)
               /\ donations' = donations \cup {row}
               /\ lastId' = [lastId EXCEPT !.donation = row.id]
       /\ opCount' = opCount + 1
       /\ UNCHANGED <<campaign, account, settings, history, proc>>

\* DonationViewSet.update and partial_update: ModelSerializer.update sets the
\* fields of the body on the row and saves it.
DonationUpdate(u, id, body) ==
    LET instance == CHOOSE d \in donations : d.id = id
        row == [instance EXCEPT
                  !.campaign = IF "campaign_id" \in DOMAIN body
                               THEN body.campaign_id ELSE @,
                  !.amount = IF "amount" \in DOMAIN body THEN body.amount ELSE @]
    IN /\ IF \A d \in donations : d.id # id
          THEN /\ reply' = Answer("donation.update", u, 0, "", 404)
               /\ UNCHANGED donations
          ELSE IF row.campaign \notin DOMAIN campaign
          THEN /\ reply' = Answer("donation.update", u, row.campaign, "", 500)
               /\ UNCHANGED donations
          ELSE /\ reply' = Answer("donation.update", u, row.campaign, "", 200)
               /\ donations' = {IF d.id = id THEN row ELSE d : d \in donations}
       /\ opCount' = opCount + 1
       /\ UNCHANGED <<campaign, account, settings, history, lastId, proc>>

\* DonationViewSet.destroy
DonationDestroy(u, id) ==
    /\ IF \A d \in donations : d.id # id
       THEN /\ reply' = Answer("donation.destroy", u, 0, "", 404)
            /\ UNCHANGED donations
       ELSE /\ reply' = Answer("donation.destroy", u, 0, "", 204)
            /\ donations' = {d \in donations : d.id # id}
    /\ opCount' = opCount + 1
    /\ UNCHANGED <<campaign, account, settings, history, lastId, proc>>

\* The ids a donation request may name.
DonationIds == 1..MaxOps

\* Reconciliation, the donations endpoint and the deletion of campaigns,
\* served one request after the other.
NextLedger ==
    \/ NextSeq
    \/ \E u \in Users, campaign_id \in {1, 2}, amount \in {100} :
          opCount < MaxOps /\ ~Running("p1") /\ DonationCreate(u, campaign_id, amount)
    \/ \E u \in Users, id \in DonationIds, body \in DonationBodies :
          opCount < MaxOps /\ ~Running("p1") /\ DonationUpdate(u, id, body)
    \/ \E u \in Users, id \in DonationIds :
          opCount < MaxOps /\ ~Running("p1") /\ DonationDestroy(u, id)
    \/ \E u \in Users, c \in DOMAIN campaign :
          ~Running("p1") /\ DestroyCampaign(u, c)

SpecLedger == Init /\ [][NextLedger]_vars

(***************************************************************************)
(* The webhook endpoint as a whole: the construction of the event from the *)
(* request, then the dispatch on the event's type.                         *)
(***************************************************************************)

\* The outcome of the event's construction: 0 when the handler goes on with
\* the event, or the status of the response that ends the request.
\* Variant: the payload is only parsed, whatever the settings say.
ConstructEventUnverified(req) == IF req.parse_ok THEN 0 ELSE 500

\* stripe_webhook, from the request to the event: json.loads without a
\* secret (a payload that is no JSON raises), stripe.Webhook.construct_event
\* with one.
ConstructEvent(req) ==
    IF ~settings.STRIPE_WEBHOOK_SECRET
    THEN IF req.parse_ok THEN 0 ELSE 500
    ELSE IF ~req.parse_ok THEN 400
    ELSE IF ~req.signature_ok THEN 400
    ELSE 0

\* The account ids events name: alice's account, an unknown one, none.
EventAccountIds == {"acct_alice", "acct_zz", ""}

\* The event types sent to the endpoint; the last two have no branch in the handler.
EventTypes ==
    {"checkout.session.completed", "account.updated", "capability.updated",
     "payment_intent.succeeded", "charge.refunded"}

\* stripe_webhook, capability.updated: the account is synced from the
\* processor (a processor error is logged), then the readiness is cascaded.
CapabilityUpdated(account_id, retrieved, syncOk) ==
    /\ reply' = Answer("capability.updated", "", 0, "", 200)
    /\ IF \E u \in Users : account[u].has /\ account[u].stripe_account_id = account_id
       THEN LET u == CHOOSE v \in Users :
                         account[v].has /\ account[v].stripe_account_id = account_id
                user_account == IF syncOk
                                THEN sync_user_stripe_account(account[u], retrieved)
                                ELSE account[u]
            IN /\ account' = [account EXCEPT ![u] = user_account]
               /\ campaign' = CascadeReady(u, is_ready(user_account))
       ELSE UNCHANGED <<account, campaign>>
    /\ UNCHANGED <<donations, settings, history, lastId, proc, opCount>>

\* Variant: an event type without a branch is refused.
IgnoredEventRefused(type) ==
    /\ reply' = Answer(type, "", 0, "", 400)
    /\ UNCHANGED <<donations, campaign, account, settings, history, lastId, proc, opCount>>

\* stripe_webhook, an event type without a branch: the final response.
IgnoredEvent(type) ==
    /\ reply' = Answer(type, "", 0, "", 200)
    /\ UNCHANGED <<donations, campaign, account, settings, history, lastId, proc, opCount>>

\* stripe_webhook, a request that ends before the dispatch.
RefusedRequest(code) ==
    /\ reply' = Answer("webhook", "", 0, "", code)
    /\ UNCHANGED <<donations, campaign, account, settings, history, lastId, proc, opCount>>

\* stripe_webhook.  req is the request: whether its body parses, whether its
\* signature verifies, the event's type and object; retrieved and syncOk are
\* the processor's answer to stripe.Account.retrieve.
stripe_webhook(p, req, retrieved, syncOk) ==
    /\ Free(p)
    /\ IF ConstructEvent(req) # 0
       THEN RefusedRequest(ConstructEvent(req))
       ELSE CASE req.type = "checkout.session.completed" ->
                    /\ StartWebhook(p, req.object)
                 [] req.type = "account.updated" ->
                    AccountUpdated(req.object.id, req.object)
                 [] req.type = "capability.updated" ->
                    CapabilityUpdated(req.object.account, retrieved, syncOk)
                 [] OTHER -> IgnoredEvent(req.type)

\* The objects of the events the processor sends.
EventObjects(type) ==
    IF type = "checkout.session.completed" THEN WebhookEvents
    ELSE IF type = "account.updated"
    THEN {[id |-> a, charges_enabled |-> f.charges_enabled,
           payouts_enabled |-> f.payouts_enabled,
           details_submitted |-> f.details_submitted] :
             a \in EventAccountIds, f \in StripeAccountStates}
    ELSE IF type = "capability.updated"
    THEN {[account |-> a] : a \in EventAccountIds}
    ELSE {[id |-> "obj"]}

\* The objects of forged events: those that would change something if the
\* handler took them.
ForgedObjects(type) ==
    IF type = "checkout.session.completed"
    THEN {ev \in WebhookEvents :
             ev.has_campaign_id /\ ev.campaign_id = 1 /\ ev.amount_total = 5000}
    ELSE IF type = "account.updated"
    THEN {o \in EventObjects(type) : o.id = "acct_alice"}
    ELSE IF type = "capability.updated"
    THEN {[account |-> "acct_alice"]}
    ELSE EventObjects(type)

\* Requests whose signature does not verify, and a body that does not parse.
BadHookRequests ==
    UNION {{[parse_ok |-> TRUE, signature_ok |-> FALSE, type |-> t, object |-> o] :
               o \in ForgedObjects(t)} : t \in EventTypes}
    \cup {[parse_ok |-> FALSE, signature_ok |-> FALSE, type |-> "",
            object |-> [id |-> "obj"]]}

\* The requests sent to the endpoint.
HookRequests ==
    UNION {{[parse_ok |-> TRUE, signature_ok |-> TRUE, type |-> t, object |-> o] :
               o \in EventObjects(t)} : t \in EventTypes}
    \cup BadHookRequests

\* The processor's answers to stripe.Account.retrieve, which only the
\* capability.updated branch asks for.
RetrieveAnswers(type) ==
    IF type = "capability.updated"
    THEN {[retrieved |-> f, syncOk |-> ok] : f \in StripeAccountStates, ok \in BOOLEAN}
    ELSE {[retrieved |-> CHOOSE f \in StripeAccountStates : TRUE, syncOk |-> TRUE]}

\* The deployment of Init, with or without a signing secret for the endpoint.
InitHook ==
    /\ donations = {}
    /\ campaign = [c \in {1, 2} |->
                     [created_by |-> "alice", status |-> "approved", stripe_ready |-> TRUE,
                      moderation_notes |-> "", current_amount |-> 0]]
    /\ account = [u \in Users |-> IF u = "alice" THEN ReadyAccount ELSE NoAccount]
    /\ settings \in {[STRIPE_SECRET_KEY |-> TRUE, STRIPE_WEBHOOK_SECRET |-> k] :
                         k \in BOOLEAN}
    /\ history = <<>>
    /\ reply = NoReply
    /\ lastId = [campaign |-> 2, donation |-> 0]
    /\ proc = [p \in Procs |-> IdleProc]
    /\ opCount = 0

\* Webhook requests served one after the other.
NextHook ==
    \/ \E req \in HookRequests : \E answer \in RetrieveAnswers(req.type) :
          /\ opCount < MaxOps /\ ~Running("p2")
          /\ stripe_webhook("p1", req, answer.retrieved, answer.syncOk)
    \/ Step("p1")

SpecHook == InitHook /\ [][NextHook]_vars

(***************************************************************************)
(* Onboarding: stripe_onboard reads and syncs the caller's payment account, *)
(* asks the processor for an onboarding link and then saves the link on    *)
(* the account it read.  The processor's events and the status requests of *)
(* other workers are served while the link is being made.                  *)
(***************************************************************************)

\* UserViewSet.stripe_onboard up to stripe.AccountLink.create
StartOnboard(p, u, stripe, createOk, syncOk) ==
    LET me == [Begin(p, "onboard") EXCEPT !.user = u]
        ensured == ensure_user_stripe_account(u, stripe)
        synced == IF syncOk THEN sync_user_stripe_account(ensured, stripe) ELSE ensured
    IN /\ ~Running(p)
       /\ IF ~settings.STRIPE_SECRET_KEY \/ (~account[u].has /\ ~createOk)
          THEN /\ proc' = [proc EXCEPT ![p] = Respond(me, 400)]
               /\ UNCHANGED account
          ELSE /\ account' = [account EXCEPT ![u] = synced]
               /\ proc' = [proc EXCEPT ![p] =
                     IF is_ready(synced) THEN Respond(me, 200)
                     ELSE [me EXCEPT !.pc = "link"]]
       /\ UNCHANGED <<donations, campaign, settings, history, reply, lastId, opCount>>

\* UserViewSet.stripe_onboard from the processor's answer to the response:
\* account.save(update_fields=["onboarding_url", "onboarding_expires_at", ...])
FinishOnboard(p, linkOk) ==
    /\ proc[p].pc = "link"
    /\ IF ~linkOk
       THEN /\ proc' = [proc EXCEPT ![p] = Respond(proc[p], 400)]
            /\ UNCHANGED account
       ELSE /\ account' = [account EXCEPT ![proc[p].user].onboarding_url = TRUE]
            /\ proc' = [proc EXCEPT ![p] = Respond(proc[p], 200)]
    /\ UNCHANGED <<donations, campaign, settings, history, reply, lastId, opCount>>

\* Onboarding requests of one worker, with the processor's events and the
\* status requests served in between.
NextOnboard ==
    \/ \E u \in Users, stripe \in StripeAccountStates, createOk \in BOOLEAN,
          syncOk \in BOOLEAN : StartOnboard("p1", u, stripe, createOk, syncOk)
    \/ \E linkOk \in BOOLEAN : FinishOnboard("p1", linkOk)
    \/ \E u \in Users, stripe \in StripeAccountStates :
          AccountUpdated(StripeAccountId(u), stripe)
    \/ \E u \in Users, stripe \in StripeAccountStates, syncOk \in BOOLEAN :
          CapabilityUpdated(StripeAccountId(u), stripe, syncOk)
    \/ \E u \in Users, stripe \in StripeAccountStates, syncOk \in BOOLEAN :
          stripe_status(u, stripe, syncOk)

SpecOnboard == InitLife /\ [][NextOnboard]_vars

(***************************************************************************)
(* The sweep of all campaigns: sync_all_payments lists and records the     *)
(* payments of every approved campaign that is ready for payments, one     *)
(* campaign after the other, each inside its own try block.                *)
(***************************************************************************)

\* create_or_update_donation on the ledger st.rows, counted as its callers count it.
CreateOrUpdate(st, c, it) ==
    IF \E d \in st.rows : d.ref = it.ref
    THEN LET d == CHOOSE d \in st.rows : d.ref = it.ref
         IN IF d.amount # it.amount
            THEN [st EXCEPT !.rows = (@ \ {d}) \cup {[d EXCEPT !.amount = it.amount]},
                            !.updated = @ + 1]
            ELSE st
    ELSE [st EXCEPT !.rows = @ \cup {[id |-> st.last + 1, ref |-> it.ref,
                                        campaign |-> c, amount |-> it.amount]},
                    !.last = @ + 1,
                    !.created = @ + 1]

\* The first n of the listed items, recorded in order.
RECURSIVE ProcessItems(_, _, _, _)
ProcessItems(st, c, items, n) ==
    IF n = 0 THEN st
    ELSE CreateOrUpdate(ProcessItems(st, c, items, n - 1), c, items[n])

\* The campaigns sync_all_payments selects, in id order.
RECURSIVE SweepQueue(_)
SweepQueue(n) ==
    IF n = 0 THEN <<>>
    ELSE SweepQueue(n - 1)
         \o (IF n \in DOMAIN campaign /\ campaign[n].status = "approved"
                 /\ campaign[n].stripe_ready
             THEN <<n>> ELSE <<>>)

\* sync_all_payments up to its loop.
StartSyncAll(p, u) ==
    /\ Free(p)
    /\ opCount' = opCount + 1
    /\ LET me == [Begin(p, "sweepall") EXCEPT !.user = u]
           campaigns == SweepQueue(lastId.campaign)
       IN proc' = [proc EXCEPT ![p] =
            IF ~IsModerator(u) THEN Respond(me, 403)
            ELSE IF ~settings.STRIPE_SECRET_KEY THEN Respond(me, 500)
            ELSE IF campaigns = <<>> THEN Respond(me, 200)
            ELSE [me EXCEPT !.pc = "loop", !.todo = campaigns,
                            !.results.total_campaigns = Len(campaigns)]]
    /\ UNCHANGED <<donations, campaign, account, settings, history, reply, lastId>>

\* The listed items of campaign c of the sweep.
SweepItems(c, piOk, csOk) ==
    LET user_account == get_user_stripe_account(campaign[c].created_by)
    IN process_payment_intents_for_donations(
           list_stripe_payment_intents_for_campaign(user_account.stripe_account_id, c, piOk))
       \o process_checkout_sessions_for_donations(
           list_stripe_checkout_sessions_for_campaign(user_account.stripe_account_id, c, csOk))

\* The state of worker p after the body of the loop for the head of its queue.
AfterCampaign(me, status, st) ==
    LET c == Head(me.todo)
        next == [me EXCEPT
                   !.todo = Tail(@),
                   !.results.synced = @ + (IF status = "success" THEN 1 ELSE 0),
                   !.results.failed = @ + (IF status = "failed" THEN 1 ELSE 0),
                   !.results.skipped = @ + (IF status = "skipped" THEN 1 ELSE 0),
                   !.results.total_donations_created =
                        @ + (IF status = "success" THEN st.created ELSE 0),
                   !.results.total_donations_updated =
                        @ + (IF status = "success" THEN st.updated ELSE 0),
                   !.results.campaigns = Append(@, [campaign_id |-> c, status |-> status]),
                   !.results.errors = IF status = "failed" THEN Append(@, c) ELSE @]
    IN IF next.todo = <<>> THEN Respond(next, 200) ELSE next

\* Variant: the body of the loop has no try block of its own, and an
\* exception ends the request.
SyncNextCampaignUnguarded(p, piOk, csOk, fault) ==
    /\ proc[p].pc = "loop"
    /\ LET me == proc[p]
           c == Head(me.todo)
           items == SweepItems(c, piOk, csOk)
           st0 == [rows |-> donations, last |-> lastId.donation, created |-> 0, updated |-> 0]
           raised == fault \in 0..Len(items)
           st == ProcessItems(st0, c, items, IF raised THEN fault ELSE Len(items))
       IN IF ~get_user_stripe_account(campaign[c].created_by).has
          THEN /\ proc' = [proc EXCEPT ![p] = AfterCampaign(me, "skipped", st0)]
               /\ UNCHANGED <<donations, campaign, lastId>>
          ELSE /\ donations' = st.rows
               /\ lastId' = [lastId EXCEPT !.donation = st.last]
               /\ IF raised
                  THEN /\ proc' = [proc EXCEPT ![p] = Respond(me, 500)]
                       /\ UNCHANGED campaign
                  ELSE /\ proc' = [proc EXCEPT ![p] = AfterCampaign(me, "success", st)]
                       /\ campaign' = [campaign EXCEPT ![c].current_amount =
                                           DonationSum(st.rows, c)]
    /\ UNCHANGED <<account, settings, history, reply, opCount>>

\* The body of the loop of sync_all_payments for the next campaign.  An
\* exception that is not the processor's is raised after `fault` of the
\* listed items were recorded (fault = -1: none is raised).
SyncNextCampaign(p, piOk, csOk, fault) ==
    /\ proc[p].pc = "loop"
    /\ LET me == proc[p]
           c == Head(me.todo)
           items == SweepItems(c, piOk, csOk)
           st0 == [rows |-> donations, last |-> lastId.donation, created |-> 0, updated |-> 0]
           raised == fault \in 0..Len(items)
           st == ProcessItems(st0, c, items, IF raised THEN fault ELSE Len(items))
       IN IF ~get_user_stripe_account(campaign[c].created_by).has
          THEN /\ proc' = [proc EXCEPT ![p] = AfterCampaign(me, "skipped", st0)]
               /\ UNCHANGED <<donations, campaign, lastId>>
          ELSE /\ donations' = st.rows
               /\ lastId' = [lastId EXCEPT !.donation = st.last]
               /\ IF raised
                  THEN /\ proc' = [proc EXCEPT ![p] = AfterCampaign(me, "failed", st)]
                       /\ UNCHANGED campaign
                  ELSE /\ proc' = [proc EXCEPT ![p] = AfterCampaign(me, "success", st)]
                       /\ campaign' = [campaign EXCEPT ![c].current_amount =
                                           DonationSum(st.rows, c)]
    /\ UNCHANGED <<account, settings, history, reply, opCount>>

\* The places where an exception is raised in the body of the loop.
Faults == -1 .. 3

BobAccount ==
    [has |-> TRUE, stripe_account_id |-> "acct_bob", charges_enabled |-> TRUE,
     payouts_enabled |-> TRUE, details_submitted |-> TRUE, onboarding_url |-> FALSE]

\* Three campaigns of two owners, approved or pending; an owner's campaigns
\* are ready for payments when the owner's account is.
InitSweep ==
    /\ donations = {}
    /\ account \in {[u \in Users |-> IF u = "alice" THEN ReadyAccount
                                     ELSE IF u = "bob" THEN b ELSE NoAccount] :
                       b \in {NoAccount, BobAccount}}
    /\ campaign \in {[c \in {1, 2, 3} |->
                        [created_by |-> IF c = 3 THEN "bob" ELSE "alice",
                         status |-> st[c],
                         stripe_ready |-> is_ready(account[IF c = 3 THEN "bob" ELSE "alice"]),
                         moderation_notes |-> "", current_amount |-> 0]] :
                      st \in [{1, 2, 3} -> {"approved", "pending"}]}
    /\ settings \in {[STRIPE_SECRET_KEY |-> k, STRIPE_WEBHOOK_SECRET |-> FALSE] :
                        k \in BOOLEAN}
    /\ history = <<>>
    /\ reply = NoReply
    /\ lastId = [campaign |-> 3, donation |-> 0]
    /\ proc = [p \in Procs |-> IdleProc]
    /\ opCount = 0

\* Sweeps, webhook deliveries and confirmations, served one after the other.
NextSweep ==
    \/ /\ opCount < MaxOps /\ ~Running("p2")
       /\ \/ \E u \in Users : StartSyncAll("p1", u)
          \/ \E ev \in WebhookEvents : StartWebhook("p1", ev)
    \/ \E piOk \in BOOLEAN, csOk \in BOOLEAN, fault \in Faults :
          SyncNextCampaign("p1", piOk, csOk, fault)
    \/ Step("p1")

SpecSweep == InitSweep /\ [][NextSweep]_vars

(***************************************************************************)
(* Campaign progress: Campaign.progress_percentage as the campaign detail  *)
(* endpoint returns it.  target_amount and current_amount are decimals     *)
(* with two places, held here in hundredths.                               *)
(***************************************************************************)
Abs(n) == IF n < 0 THEN 0 - n ELSE n

\* int(x) of the quotient a / b: the digits before the decimal point, that
\* is, rounding toward zero.  The Decimal quotient carries 28 significant
\* digits, more than two ten-digit amounts can need to tell 100 * a / b
\* from the next whole number.
IntOfQuotient(a, b) ==
    IF (a < 0) = (b < 0) \/ a = 0
    THEN Abs(a) \div Abs(b)
    ELSE 0 - (Abs(a) \div Abs(b))

\* Campaign.progress_percentage
progress_percentage(c) ==
    IF c.target_amount = 0 THEN 0
    ELSE LET p == IntOfQuotient(c.current_amount * 100, c.target_amount)
         IN IF p < 100 THEN p ELSE 100

\* GET of a campaign's detail: CampaignSerializer with progress_percentage.
RetrieveCampaign(u, c) ==
    /\ reply' = IF Visible(u, c)
                THEN [op |-> "retrieve", user |-> u, c |-> c, was |-> "", code |-> 200,
                      progress_percentage |-> progress_percentage(campaign[c])]
                ELSE Answer("retrieve", u, c, "", 404)
    /\ UNCHANGED <<donations, campaign, account, settings, history, lastId, proc, opCount>>

\* The targets a creation request can carry: the serializer's DecimalField
\* has no lower limit.
Targets == {0, 300, 100000, 0 - 300}

\* The campaigns of Init, with their targets.
InitProgress ==
    /\ donations = {}
    /\ campaign \in {[c \in {1, 2} |->
                        [created_by |-> "alice", status |-> "approved",
                         stripe_ready |-> TRUE, moderation_notes |-> "",
                         current_amount |-> 0,
                         target_amount |-> IF c = 1 THEN t ELSE 100000]] :
                      t \in Targets}
    /\ account = [u \in Users |-> IF u = "alice" THEN ReadyAccount ELSE NoAccount]
    /\ settings = [STRIPE_SECRET_KEY |-> TRUE, STRIPE_WEBHOOK_SECRET |-> FALSE]
    /\ history = <<>>
    /\ reply = NoReply
    /\ lastId = [campaign |-> 2, donation |-> 0]
    /\ proc = [p \in Procs |-> IdleProc]
    /\ opCount = 0

\* Webhook deliveries and confirmations served one after the other, and
\* reads of the campaigns.
NextProgress ==
    \/ /\ opCount < MaxOps /\ ~Running("p2")
       /\ \/ \E sid \in SessionIds, cid \in {1, 2} : StartConfirm("p1", sid, cid)
          \/ \E ev \in WebhookEvents : StartWebhook("p1", ev)
    \/ Step("p1")
    \/ \E u \in {"alice", "bob"}, c \in {1, 9} : RetrieveCampaign(u, c)

SpecProgress == InitProgress /\ [][NextProgress]_vars

(***************************************************************************)
(* Checkout: create_checkout_session validates the request, syncs the      *)
(* owner's payment account and asks the processor for a session.  The      *)
(* requested amount is a decimal with two places: a sign, whole units and  *)
(* hundredths.                                                             *)
(***************************************************************************)
RequestAmounts ==
    {[sign |-> 1, units |-> 50, hundredths |-> 0],
     [sign |-> 1, units |-> 12, hundredths |-> 34],
     [sign |-> 1, units |-> 0, hundredths |-> 1],
     [sign |-> 1, units |-> 0, hundredths |-> 0],
     [sign |-> 0 - 1, units |-> 5, hundredths |-> 0]}

\* amount <= 0
NotPositive(amount) == amount.sign < 0 \/ (amount.units = 0 /\ amount.hundredths = 0)

\* Variant: the amount is sent in whole units.
UnitAmountInUnits(amount) == amount.sign * amount.units

\* int(amount * 100)
UnitAmount(amount) == amount.sign * (amount.units * 100 + amount.hundredths)

\* The keyword arguments of stripe.checkout.Session.create.
SessionParams(campaign_id, amount, stripe_account) ==
    [unit_amount |-> UnitAmount(amount),
     quantity |-> 1,
     metadata |-> [campaign_id |-> campaign_id,
                   stripe_account_id |-> stripe_account.stripe_account_id],
     payment_intent_data |-> [metadata |-> [campaign_id |-> campaign_id]],
     stripe_account |-> stripe_account.stripe_account_id]

\* DonationViewSet.create_checkout_session
create_checkout_session(campaign_id, amount, retrieved, syncOk, createOk) ==
    LET valid == /\ campaign_id \in DOMAIN campaign
                 /\ campaign[campaign_id].status = "approved"
                 /\ campaign[campaign_id].stripe_ready
        user_account == get_user_stripe_account(campaign[campaign_id].created_by)
        stripe_account == sync_user_stripe_account(user_account, retrieved)
        Refuse(code) == /\ reply' = Answer("checkout", "", campaign_id, "", code)
                        /\ UNCHANGED <<account, campaign>>
    IN /\ IF ~settings.STRIPE_SECRET_KEY THEN Refuse(500)
          ELSE IF ~valid THEN Refuse(400)
          ELSE IF NotPositive(amount) THEN Refuse(400)
          ELSE IF ~user_account.has THEN Refuse(400)
          ELSE IF ~syncOk THEN Refuse(500)
          ELSE /\ account' = [account EXCEPT
                                ![campaign[campaign_id].created_by] = stripe_account]
               /\ IF ~is_ready(stripe_account)
                  THEN /\ campaign' = [campaign EXCEPT ![campaign_id].stripe_ready = FALSE]
                       /\ reply' = Answer("checkout", "", campaign_id, "", 400)
                  ELSE /\ UNCHANGED campaign
                       /\ reply' =
                            IF createOk
                            THEN [op |-> "checkout", user |-> "", c |-> campaign_id,
                                  was |-> "", code |-> 200, amount |-> amount,
                                  params |-> SessionParams(campaign_id, amount,
                                                           stripe_account)]
                            ELSE Answer("checkout", "", campaign_id, "", 400)
       /\ UNCHANGED <<donations, settings, history, lastId, proc, opCount>>

\* Two campaigns of an owner whose payment account is ready; the second may
\* still be pending.
InitCheckout ==
    /\ donations = {}
    /\ campaign \in {[c \in {1, 2} |->
                        [created_by |-> "alice",
                         status |-> IF c = 1 THEN "approved" ELSE s,
                         stripe_ready |-> TRUE, moderation_notes |-> "",
                         current_amount |-> 0]] : s \in {"approved", "pending"}}
    /\ account = [u \in Users |-> IF u = "alice" THEN ReadyAccount ELSE NoAccount]
    /\ settings \in {[STRIPE_SECRET_KEY |-> k, STRIPE_WEBHOOK_SECRET |-> FALSE] :
                        k \in BOOLEAN}
    /\ history = <<>>
    /\ reply = NoReply
    /\ lastId = [campaign |-> 2, donation |-> 0]
    /\ proc = [p \in Procs |-> IdleProc]
    /\ opCount = 0

\* Checkout requests, with the processor's account events, status requests
\* and suspensions between them.
NextCheckout ==
    \/ \E campaign_id \in {1, 2, 9}, amount \in RequestAmounts,
          retrieved \in StripeAccountStates, syncOk \in BOOLEAN, createOk \in BOOLEAN :
          create_checkout_session(campaign_id, amount, retrieved, syncOk, createOk)
    \/ \E stripe \in StripeAccountStates : AccountUpdated("acct_alice", stripe)
    \/ \E u \in Users, stripe \in StripeAccountStates, syncOk \in BOOLEAN :
          stripe_status(u, stripe, syncOk)
    \/ \E u \in Users, c \in DOMAIN campaign : Suspend(u, c)

SpecCheckout == InitCheckout /\ [][NextCheckout]_vars

(***************************************************************************)
(* Reconciliation next to the lifecycle: a webhook delivery, confirmation  *)
(* or sweep is served step by step while suspensions, moderation and the   *)
(* processor's account events are served in between.                       *)
(***************************************************************************)
\* The deliveries for campaign 1 that carry its id and a positive amount.
MixedEvents ==
    {ev \in WebhookEvents :
        ev.id = "cs_a" /\ ev.has_campaign_id /\ ev.campaign_id = 1 /\ ev.amount_total > 0}

NextMixed ==
    \/ /\ opCount < MaxOps /\ ~Running("p2")
       /\ \/ \E ev \in MixedEvents : StartWebhook("p1", ev)
          \/ StartConfirm("p1", "cs_a", 1)
          \/ StartSync("p1", "alice", 1, TRUE, TRUE)
    \/ Step("p1")
    \/ Suspend("alice", 1)
    \/ Len(history) < MaxHistory /\ Resume("mod", 1, "n")
    \/ \E stripe \in StripeAccountStates : AccountUpdated("acct_alice", stripe)

SpecMixed == Init /\ [][NextMixed]_vars

(***************************************************************************)
(* Moderation served by concurrent workers: approve and reject read the    *)
(* campaign, test its status, save the instance and then write the         *)
(* ModerationHistory row, with no transaction or lock around the steps.    *)
(***************************************************************************)

\* CampaignViewSet.approve and CampaignViewSet.reject up to campaign.save()
StartModeration(p, u, c, action, moderation_notes) ==
    /\ ~Running(p)
    /\ opCount' = opCount + 1
    /\ LET me == [Begin(p, action) EXCEPT !.user = u, !.c = c]
           instance == campaign[c]
       IN proc' = [proc EXCEPT ![p] =
            IF ~IsModerator(u) THEN Respond(me, 403)
            ELSE IF action = "approve" /\ ~instance.stripe_ready THEN Respond(me, 400)
            ELSE IF instance.status # "pending" THEN Respond(me, 400)
            ELSE IF action = "reject" /\ moderation_notes = "" THEN Respond(me, 400)
            ELSE [me EXCEPT !.pc = "msave",
                            !.camp = [instance EXCEPT
                                        !.status = IF action = "approve"
                                                   THEN "approved" ELSE "rejected",
                                        !.moderation_notes = moderation_notes]]]
    /\ UNCHANGED <<donations, campaign, account, settings, history, reply, lastId>>

\* campaign.save()
SaveModerated(p) ==
    /\ proc[p].pc = "msave"
    /\ campaign' = [campaign EXCEPT ![proc[p].c] = proc[p].camp]
    /\ proc' = [proc EXCEPT ![p].pc = "mhist"]
    /\ UNCHANGED <<donations, account, settings, history, reply, lastId, opCount>>

\* ModerationHistory.objects.create(...) and the response
WriteHistory(p) ==
    /\ proc[p].pc = "mhist"
    /\ history' = Append(history, HistoryRow(proc[p].c, proc[p].user, proc[p].kind,
                                             proc[p].camp.moderation_notes))
    /\ proc' = [proc EXCEPT ![p] = Respond(proc[p], 200)]
    /\ UNCHANGED <<donations, campaign, account, settings, reply, lastId, opCount>>

\* One campaign of an owner whose account is ready, pending or still a draft.
InitModerate ==
    /\ donations = {}
    /\ campaign \in {[c \in {1} |->
                        [created_by |-> "alice", status |-> s, stripe_ready |-> TRUE,
                         moderation_notes |-> "", current_amount |-> 0]] :
                      s \in {"pending", "draft"}}
    /\ account = [u \in Users |-> IF u = "alice" THEN ReadyAccount ELSE NoAccount]
    /\ settings = [STRIPE_SECRET_KEY |-> TRUE, STRIPE_WEBHOOK_SECRET |-> FALSE]
    /\ history = <<>>
    /\ reply = NoReply
    /\ lastId = [campaign |-> 1, donation |-> 0]
    /\ proc = [p \in Procs |-> IdleProc]
    /\ opCount = 0

\* Moderation requests served by two workers.
NextModerate ==
    \E p \in Procs :
        \/ /\ opCount < MaxConcurrentOps
           /\ \E u \in {"mod", "bob"}, action \in {"approve", "reject"}, notes \in Notes :
                 StartModeration(p, u, 1, action, notes)
        \/ SaveModerated(p)
        \/ WriteHistory(p)

SpecModerate == InitModerate /\ [][NextModerate]_vars

(***************************************************************************)
(* ensure_user_stripe_account served by concurrent workers: the lookup,    *)
(* the processor's Account.create and the local INSERT are separate        *)
(* steps.  lastId.stripe_account counts the accounts the processor made.   *)
(***************************************************************************)

\* perform_create and stripe_onboard up to get_user_stripe_account inside
\* ensure_user_stripe_account
StartEnsure(p, u, caller, requested) ==
    LET c == lastId.campaign + 1
        me == [Begin(p, caller) EXCEPT !.user = u,
                                      !.c = IF caller = "create" THEN c ELSE 0]
    IN /\ ~Running(p)
       /\ opCount' = opCount + 1
       /\ IF caller = "create"
          THEN /\ campaign' = Insert(campaign, c,
                      [NoCampaign EXCEPT !.created_by = u, !.status = requested])
               /\ lastId' = [lastId EXCEPT !.campaign = c]
          ELSE UNCHANGED <<campaign, lastId>>
       /\ proc' = [proc EXCEPT ![p] =
            IF ~settings.STRIPE_SECRET_KEY THEN Respond(me, 400)
            ELSE IF get_user_stripe_account(u).has
                 THEN [me EXCEPT !.pc = "ensured", !.acct = get_user_stripe_account(u)]
                 ELSE [me EXCEPT !.pc = "acreate"]]
       /\ UNCHANGED <<donations, account, settings, history, reply>>

\* create_stripe_account_for_user: stripe.Account.create
CreateStripeAccount(p, createOk, created) ==
    /\ proc[p].pc = "acreate"
    /\ IF ~createOk
       THEN /\ proc' = [proc EXCEPT ![p] = Respond(proc[p], 400)]
            /\ UNCHANGED lastId
       ELSE /\ lastId' = [lastId EXCEPT !.stripe_account = @ + 1]
            /\ proc' = [proc EXCEPT ![p] =
                 [proc[p] EXCEPT !.pc = "ainsert", !.created = TRUE,
                     !.acct = [NoAccount EXCEPT
                                 !.has = TRUE,
                                 !.stripe_account_id = StripeAccountId(proc[p].user),
                                 !.charges_enabled = created.charges_enabled,
                                 !.payouts_enabled = created.payouts_enabled,
                                 !.details_submitted = created.details_submitted]]]
    /\ UNCHANGED <<donations, campaign, account, settings, history, reply, opCount>>

\* UserStripeAccount.objects.create: the one-to-one user column refuses a
\* second row, and no caller catches the IntegrityError.
InsertAccount(p) ==
    /\ proc[p].pc = "ainsert"
    /\ IF account[proc[p].user].has
       THEN /\ proc' = [proc EXCEPT ![p] = Respond(proc[p], 500)]
            /\ UNCHANGED account
       ELSE /\ account' = [account EXCEPT ![proc[p].user] = proc[p].acct]
            /\ proc' = [proc EXCEPT ![p].pc = "ensured"]
    /\ UNCHANGED <<donations, campaign, settings, history, reply, lastId, opCount>>

\* perform_create and stripe_onboard after ensure_user_stripe_account
\* returned: sync_user_stripe_account, then the campaign's stripe_ready and
\* status, or the onboarding link.
FinishEnsure(p, retrieved, syncOk, linkOk) ==
    LET me == proc[p]
        synced == IF syncOk THEN sync_user_stripe_account(me.acct, retrieved) ELSE me.acct
        ready == is_ready(synced)
    IN /\ me.pc = "ensured"
       /\ IF me.kind = "create"
          THEN /\ account' = [account EXCEPT ![me.user] = synced]
               /\ campaign' = [campaign EXCEPT ![me.c] =
                      [@ EXCEPT !.stripe_ready = ready,
                                !.status = IF ~ready /\ campaign[me.c].status # "draft"
                                           THEN "draft" ELSE @]]
               /\ proc' = [proc EXCEPT ![p] = Respond(me, 201)]
          ELSE /\ UNCHANGED campaign
               /\ IF ready
                  THEN /\ account' = [account EXCEPT ![me.user] = synced]
                       /\ proc' = [proc EXCEPT ![p] = Respond(me, 200)]
                  ELSE IF ~linkOk
                  THEN /\ account' = [account EXCEPT ![me.user] = synced]
                       /\ proc' = [proc EXCEPT ![p] = Respond(me, 400)]
                  ELSE /\ account' = [account EXCEPT ![me.user] =
                                        [synced EXCEPT !.onboarding_url = TRUE]]
                       /\ proc' = [proc EXCEPT ![p] = Respond(me, 200)]
       /\ UNCHANGED <<donations, settings, history, reply, lastId, opCount>>

\* No campaigns, no payment accounts, and no account made by the processor.
InitEnsure ==
    /\ donations = {}
    /\ campaign = <<>>
    /\ account = [u \in Users |-> NoAccount]
    /\ settings \in {[STRIPE_SECRET_KEY |-> k, STRIPE_WEBHOOK_SECRET |-> FALSE] : k \in BOOLEAN}
    /\ history = <<>>
    /\ reply = NoReply
    /\ lastId = [campaign |-> 0, donation |-> 0, stripe_account |-> 0]
    /\ proc = [p \in Procs |-> IdleProc]
    /\ opCount = 0

\* Campaign creations and onboarding requests of one user, served by
\* concurrent workers.
NextEnsure ==
    \E p \in Procs :
        \/ /\ opCount < MaxOps
           /\ \E caller \in {"create", "onboard"}, requested \in {"draft", "pending"} :
                 StartEnsure(p, "alice", caller, requested)
        \/ \E createOk \in BOOLEAN, created \in StripeAccountStates :
              CreateStripeAccount(p, createOk, created)
        \/ InsertAccount(p)
        \/ \E retrieved \in StripeAccountStates, syncOk \in BOOLEAN, linkOk \in BOOLEAN :
              FinishEnsure(p, retrieved, syncOk, linkOk)

SpecEnsure == InitEnsure /\ [][NextEnsure]_vars

(***************************************************************************)
(* Listing a campaign's objects from the processor, page by page.  The     *)
(* processor's pages are inputs: any data with any has_more flag, or an    *)
(* error.                                                                  *)
(***************************************************************************)
MaxRequests == 3

MaxListed == 2

\* The status a listed object must have to be kept.
Wanted(kind) == IF kind = "payment_intents" THEN "succeeded" ELSE "paid"

\* The objects the processor may put on a page of the given kind.
ListObjects(kind) ==
    { [id |-> i, campaign_id |-> c, status |-> st] :
        i \in {"o_1", "o_2"}, c \in {1, 2}, st \in {Wanted(kind), "open"} }

ListPages(kind) ==
    { [data |-> d, has_more |-> m] :
        d \in {<<>>} \cup {<<o>> : o \in ListObjects(kind)}
                     \cup {<<o1, o2>> : o1 \in ListObjects(kind), o2 \in ListObjects(kind)},
        m \in BOOLEAN }

\* for pi in pi_list.data: ... payment_intents.append(pi)
RECURSIVE Matching(_, _, _)
Matching(data, campaign_id, wanted) ==
    IF data = <<>> THEN <<>>
    ELSE LET o == Head(data)
             rest == Matching(Tail(data), campaign_id, wanted)
         IN IF o.campaign_id = campaign_id /\ o.status = wanted
            THEN <<o>> \o rest ELSE rest

\* list_stripe_payment_intents_for_campaign and
\* list_stripe_checkout_sessions_for_campaign before the loop
StartListing(p, kind, campaign_id) ==
    /\ ~Running(p)
    /\ opCount' = opCount + 1
    /\ proc' = [proc EXCEPT ![p] =
          [Begin(p, kind) EXCEPT !.pc = "listing", !.c = campaign_id,
                                 !.has_more = TRUE, !.sid = "", !.listed = <<>>]]
    /\ UNCHANGED <<donations, campaign, account, settings, history, reply, lastId>>

\* One iteration of "while has_more": the list request with the cursor, the
\* page's objects, has_more and the cursor; StripeError breaks the loop.
ListPage(p, ok, page) ==
    LET me == proc[p]
        kept == Matching(page.data, me.c, Wanted(me.kind))
    IN /\ me.pc = "listing"
       /\ me.requests < MaxRequests
       /\ Len(me.listed) + Len(kept) <= MaxListed
       /\ proc' = [proc EXCEPT ![p] =
            IF ~ok THEN [me EXCEPT !.pc = "done", !.requests = @ + 1, !.listOk = FALSE]
            ELSE [me EXCEPT !.requests = @ + 1,
                            !.listed = @ \o kept,
                            !.has_more = page.has_more,
                            !.sid = IF page.data # <<>>
                                    THEN page.data[Len(page.data)].id ELSE @,
                            !.listOk = TRUE,
                            !.pc = IF page.has_more THEN "listing" ELSE "done"]]
       /\ UNCHANGED <<donations, campaign, account, settings, history, reply, lastId, opCount>>

\* The listings of one worker for campaign 1.
NextListing ==
    \/ /\ opCount < MaxOps
       /\ \E kind \in {"payment_intents", "checkout_sessions"} : StartListing("p1", kind, 1)
    \/ \E kind \in {"payment_intents", "checkout_sessions"}, ok \in BOOLEAN :
          \E page \in ListPages(kind) :
             proc["p1"].kind = kind /\ ListPage("p1", ok, page)

SpecListing == Init /\ [][NextListing]_vars

(***************************************************************************)
(* Vocabulary of the properties                                            *)
(***************************************************************************)

\* The rows of the ledger that carry reference r.
RowsOf(rows, r) == {d \in rows : d.ref = r}

\* The total of campaign c's donations, added up row by row in id order.
RECURSIVE LedgerSumUpTo(_, _, _)
LedgerSumUpTo(rows, c, n) ==
    IF n = 0 THEN 0
    ELSE LedgerSumUpTo(rows, c, n - 1)
         + (IF \E d \in rows : d.id = n /\ d.campaign = c
            THEN (CHOOSE d \in rows : d.id = n /\ d.campaign = c).amount
            ELSE 0)

LedgerSum(rows, c) == LedgerSumUpTo(rows, c, Cardinality(rows))

\* In the database the handler of worker p started from, campaign c's total is right.
ConsistentBefore(p, c) ==
    proc[p].pre.campaign[c].current_amount = LedgerSum(proc[p].pre.donations, c)

\* Worker p has answered a webhook or confirmation that reached the ledger.
Recorded(p) ==
    /\ proc[p].kind \in {"webhook", "confirm"}
    /\ proc[p].pc = "done"
    /\ proc[p].c # 0

\* Workers p and q have answered two requests that ran alone against the
\* database p started from: p started with no other request running, q
\* started next (while p was running or after its answer), and no request
\* started after q.
RanTogether(p, q) ==
    /\ p # q
    /\ proc[p].pc = "done" /\ proc[q].pc = "done"
    /\ proc[p].c # 0 /\ proc[q].c # 0
    /\ proc[p].solo
    /\ proc[q].startNo = proc[p].startNo + 1
    /\ opCount = proc[q].startNo

(***************************************************************************)
(* C1: under every interleaving of webhook deliveries, confirm_payment     *)
(* calls and sweeps, the ledger holds at most one Donation row per payment *)
(* reference, and a writer whose INSERT loses the creation race goes down  *)
(* the already-exists branch (created = False, the existing row in hand)   *)
(* and answers 200 instead of failing.                                     *)
(***************************************************************************)
C1_OneRowPerReference ==
    /\ \A d1, d2 \in donations : d1.ref = d2.ref => d1 = d2
    /\ \A p \in Procs :
         proc[p].raced =>
            /\ ~proc[p].created
            /\ proc[p].don.ref = proc[p].ref
            /\ \E d \in donations : d.id = proc[p].don.id /\ d.ref = proc[p].ref
            /\ proc[p].pc \in {"dsave", "recalc", "csave", "done"}
            /\ proc[p].pc = "done" => proc[p].resp = 200

\* A writer lost the race to another writer and has answered 200.
C1_Witness ==
    \E p, q \in Procs :
        /\ p # q
        /\ proc[p].raced /\ proc[p].pc = "done" /\ proc[p].resp = 200
        /\ proc[q].created /\ proc[q].ref = proc[p].ref

(***************************************************************************)
(* C2: recordDonation(c, r, a) (create_or_update_donation) called for a    *)
(* reference that is not in the ledger creates its single row and returns  *)
(* created = True; called again with the same amount it returns            *)
(* created = False and updated = False and leaves the ledger as it was.    *)
(* Either way exactly one row carries r.                                   *)
(***************************************************************************)
C2_Idempotent ==
    \A p \in Procs :
        Recorded(p) =>
            LET me == proc[p]
                prior == RowsOf(me.pre.donations, me.ref)
            IN /\ Cardinality(RowsOf(donations, me.ref)) = 1
               /\ prior = {} =>
                     /\ me.created /\ ~me.updated
                     /\ donations = me.pre.donations \cup
                           {[id |-> Cardinality(me.pre.donations) + 1, ref |-> me.ref,
                             campaign |-> me.c, amount |-> me.amount]}
               /\ \A d \in prior :
                     d.amount = me.amount =>
                        /\ ~me.created /\ ~me.updated
                        /\ donations = me.pre.donations

\* The second call: the reference was already recorded for c with amount a.
C2_Witness ==
    \E p \in Procs :
        /\ Recorded(p)
        /\ ~proc[p].created /\ ~proc[p].updated
        /\ \E d \in proc[p].pre.donations :
              d.ref = proc[p].ref /\ d.amount = proc[p].amount /\ d.campaign = proc[p].c

(***************************************************************************)
(* C3: two deliveries of the same checkout.session.completed event (same   *)
(* campaign, reference and amount) processed at the same time, starting    *)
(* from a consistent campaign without a row for the reference: afterwards  *)
(* exactly one Donation row exists, current_amount has grown by the amount *)
(* exactly once, and both deliveries were answered 200.                    *)
(***************************************************************************)
C3_DuplicateWebhook ==
    \A p, q \in Procs :
        ( /\ RanTogether(p, q)
          /\ ~proc[q].solo
          /\ proc[p].kind = "webhook" /\ proc[q].kind = "webhook"
          /\ proc[p].c = proc[q].c
          /\ proc[p].ref = proc[q].ref
          /\ proc[p].amount = proc[q].amount
          /\ RowsOf(proc[p].pre.donations, proc[p].ref) = {}
          /\ ConsistentBefore(p, proc[p].c) )
        =>
        LET me == proc[p]
        IN /\ Cardinality(RowsOf(donations, me.ref)) = 1
           /\ \A d \in RowsOf(donations, me.ref) :
                 d.amount = me.amount /\ d.campaign = me.c
           /\ campaign[me.c].current_amount =
                 me.pre.campaign[me.c].current_amount + me.amount
           /\ proc[p].resp = 200 /\ proc[q].resp = 200

\* Both deliveries found no row; one inserted it, the other hit the constraint.
C3_Witness ==
    \E p, q \in Procs :
        /\ RanTogether(p, q)
        /\ proc[p].kind = "webhook" /\ proc[q].kind = "webhook"
        /\ proc[p].c = proc[q].c /\ proc[p].ref = proc[q].ref
        /\ proc[p].amount = 5000 /\ proc[q].amount = 5000
        /\ proc[p].pre.donations = {}
        /\ proc[p].raced \/ proc[q].raced
        /\ campaign[proc[p].c].current_amount = 5000

(***************************************************************************)
(* C4: a webhook delivery and a client confirmation for one paid checkout  *)
(* session, in either order and interleaved in any way, starting from      *)
(* consistent campaigns and a ledger without a row for the payment, leave  *)
(* exactly one new Donation row, and that donation is counted exactly      *)
(* once: in the current_amount of the campaign the row references, and in  *)
(* no other campaign's.  Both requests are answered 200.                   *)
(***************************************************************************)
C4_WebhookAndConfirm ==
    \A p, q \in Procs :
        ( /\ RanTogether(p, q)
          /\ {proc[p].kind, proc[q].kind} = {"webhook", "confirm"}
          /\ proc[p].sid = proc[q].sid
          /\ proc[p].amount = proc[q].amount
          /\ RowsOf(proc[p].pre.donations, proc[p].ref) = {}
          /\ RowsOf(proc[p].pre.donations, proc[q].ref) = {}
          /\ \A c \in DOMAIN campaign : ConsistentBefore(p, c) )
        =>
        LET me == proc[p]
            new == donations \ me.pre.donations
        IN /\ Cardinality(new) = 1
           /\ \A d \in new :
                 /\ d.amount = me.amount
                 /\ d.ref \in {proc[p].ref, proc[q].ref}
                 /\ \A c \in DOMAIN campaign :
                       campaign[c].current_amount =
                          me.pre.campaign[c].current_amount
                          + (IF d.campaign = c THEN me.amount ELSE 0)
           /\ proc[p].resp = 200 /\ proc[q].resp = 200

\* The webhook and the confirmation of session cs_b raced for the insert.
C4_Witness ==
    \E p, q \in Procs :
        /\ RanTogether(p, q)
        /\ {proc[p].kind, proc[q].kind} = {"webhook", "confirm"}
        /\ proc[p].sid = "cs_b" /\ proc[q].sid = "cs_b"
        /\ proc[p].amount = proc[q].amount
        /\ proc[p].c = proc[q].c
        /\ proc[p].pre.donations = {}
        /\ proc[p].raced \/ proc[q].raced
        /\ Cardinality(donations) = 1
        /\ campaign[proc[p].c].current_amount = proc[p].amount

(***************************************************************************)
(* C5: whenever no request is being processed, every campaign's            *)
(* current_amount equals the sum of the amounts of its Donation rows.      *)
(***************************************************************************)
C5_AggregateConsistent ==
    (\A p \in Procs : ~Running(p)) =>
        \A c \in DOMAIN campaign :
            campaign[c].current_amount = LedgerSum(donations, c)

(***************************************************************************)
(* C6: two requests with different payment references for the same        *)
(* campaign that run concurrently and both take the creation branch leave  *)
(* current_amount raised by both amounts.                                  *)
(***************************************************************************)
C6_NoLostIncrement ==
    \A p, q \in Procs :
        ( /\ RanTogether(p, q)
          /\ proc[p].kind \in {"webhook", "confirm"}
          /\ proc[q].kind \in {"webhook", "confirm"}
          /\ proc[p].c = proc[q].c
          /\ proc[p].ref # proc[q].ref
          /\ ~proc[q].solo
          /\ proc[p].created /\ proc[q].created
          /\ ConsistentBefore(p, proc[p].c) )
        =>
        campaign[proc[p].c].current_amount =
            proc[p].pre.campaign[proc[p].c].current_amount
            + proc[p].amount + proc[q].amount

(***************************************************************************)
(* C7: recordDonation(c, r, a1) followed by recordDonation(c, r, a2) with  *)
(* a1 # a2, made by webhook or confirmation requests served one after the  *)
(* other: the second call returns created = False and updated = True, the  *)
(* ledger differs from before only in that the single row of r now has     *)
(* amount a2, and the request leaves c's current_amount equal to the sum   *)
(* of c's rows with the corrected amount.                                  *)
(***************************************************************************)
C7_AmountCorrection ==
    \A p \in Procs :
        Recorded(p) =>
            LET me == proc[p]
            IN \A d \in RowsOf(me.pre.donations, me.ref) :
                  (d.campaign = me.c /\ d.amount # me.amount) =>
                     /\ ~me.created /\ me.updated
                     /\ donations = (me.pre.donations \ {d})
                                       \cup {[d EXCEPT !.amount = me.amount]}
                     /\ Cardinality(RowsOf(donations, me.ref)) = 1
                     /\ campaign[me.c].current_amount = LedgerSum(donations, me.c)
                     /\ me.resp = 200

\* A payment recorded as 50.00 for the campaign was reported again as 30.00.
C7_Witness ==
    \E p \in Procs :
        /\ Recorded(p)
        /\ proc[p].updated /\ proc[p].amount = 3000
        /\ \E d \in proc[p].pre.donations :
              d.ref = proc[p].ref /\ d.campaign = proc[p].c /\ d.amount = 5000
        /\ campaign[proc[p].c].current_amount = 3000

(***************************************************************************)
(* C8: when recalculate_campaign_amount(c) has returned, c's               *)
(* current_amount, in the database and in the caller's instance, is the    *)
(* exact sum of the amounts of c's Donation rows (0 when it has none); the *)
(* campaign row was written if and only if the stored value differed from  *)
(* that sum, and nothing else in the campaign table changed.               *)
(***************************************************************************)
C8_RecalculateExact ==
    \A p \in Procs :
        (proc[p].pc = "done" /\ proc[p].recalculated) =>
            LET me == proc[p]
                total == LedgerSum(donations, me.c)
            IN /\ campaign[me.c].current_amount = total
               /\ me.camp.current_amount = total
               /\ me.wrote <=> me.pre.campaign[me.c].current_amount # total
               /\ \A c \in DOMAIN campaign :
                     c # me.c => campaign[c] = me.pre.campaign[c]
               /\ campaign[me.c] = [me.pre.campaign[me.c] EXCEPT !.current_amount = total]

\* A recalculation found a stale total and replaced it by a non-zero sum.
C8_Witness ==
    \E p \in Procs :
        /\ proc[p].pc = "done" /\ proc[p].recalculated /\ proc[p].wrote
        /\ campaign[proc[p].c].current_amount > 0
        /\ campaign[proc[p].c].current_amount # proc[p].pre.campaign[proc[p].c].current_amount

\* The references under which the processor's succeeded payment-intents and
\* paid checkout sessions of campaign c are recorded: the payment-intent id,
\* or session_<id> for a session that has no payment-intent.
ProcessorPayments(c) ==
    { [ref |-> <<"", StripePaymentIntentList[i].id>>,
       amount |-> StripePaymentIntentList[i].amount] :
          i \in { j \in DOMAIN StripePaymentIntentList :
                    /\ StripePaymentIntentList[j].campaign_id = c
                    /\ StripePaymentIntentList[j].status = "succeeded" } }
    \cup
    { [ref |-> IF StripeSessionList[i].payment_intent # NoPI
               THEN <<"", StripeSessionList[i].payment_intent>>
               ELSE <<"session_", StripeSessionList[i].id>>,
       amount |-> StripeSessionList[i].amount_total] :
          i \in { j \in DOMAIN StripeSessionList :
                    /\ StripeSessionList[j].campaign_id = c
                    /\ StripeSessionList[j].payment_status = "paid" } }

ProcessorRefs(c) == { x.ref : x \in ProcessorPayments(c) }

(***************************************************************************)
(* C9: a sweep (sync_payments) of a campaign none of whose processor-side  *)
(* succeeded payment-intents and paid checkout sessions has a Donation     *)
(* row, with both listings answered by the processor: it creates exactly   *)
(* one row per distinct payment reference (a payment listed both as        *)
(* payment-intent and as session gets one row), each for this campaign     *)
(* with the processor's amount, touches no other row, and leaves           *)
(* current_amount equal to the sum of all the campaign's donations.        *)
(***************************************************************************)
C9_SweepRepairsDrift ==
    \A p \in Procs :
        LET me == proc[p]
            new == donations \ me.pre.donations
        IN ( /\ me.kind = "sweep" /\ me.pc = "done" /\ me.c # 0
             /\ me.listOk
             /\ \A r \in ProcessorRefs(me.c) : RowsOf(me.pre.donations, r) = {} )
           =>
           /\ me.resp = 200
           /\ me.pre.donations \subseteq donations
           /\ \A r \in ProcessorRefs(me.c) : Cardinality(RowsOf(donations, r)) = 1
           /\ \A d \in new :
                 /\ d.campaign = me.c
                 /\ [ref |-> d.ref, amount |-> d.amount] \in ProcessorPayments(me.c)
           /\ Cardinality(new) = Cardinality(ProcessorRefs(me.c))
           /\ me.nCreated = Cardinality(new) /\ me.nUpdated = 0
           /\ campaign[me.c].current_amount = LedgerSum(donations, me.c)

\* The sweep of campaign 1 found three listed objects for two payments and
\* created the two rows: 50.00 + 30.00.
C9_Witness ==
    \E p \in Procs :
        /\ proc[p].kind = "sweep" /\ proc[p].pc = "done" /\ proc[p].c = 1
        /\ proc[p].listOk /\ Len(proc[p].listed) = 3
        /\ proc[p].pre.donations = {}
        /\ Cardinality(donations) = 2
        /\ campaign[1].current_amount = 8000

(***************************************************************************)
(* C10: no campaign or account request leaves a campaign in status pending *)
(* or approved that it did not have before the request (a new campaign     *)
(* had none) unless the campaign's stripe_ready flag is true.              *)
(***************************************************************************)
C10_ReadinessGate ==
    ( /\ reply.c \in DOMAIN campaign
      /\ campaign[reply.c].status \in {"pending", "approved"}
      /\ campaign[reply.c].status # reply.was )
    => campaign[reply.c].stripe_ready

(***************************************************************************)
(* C11: a campaign's status becomes approved only by a moderator's approve *)
(* of a pending campaign (API action or moderation dashboard) or by a      *)
(* moderator's resume of a suspended or cancelled campaign; no creation    *)
(* and no edit of a campaign makes it approved.                            *)
(***************************************************************************)
C11_ApprovedOnlyByModeration ==
    ( /\ reply.c \in DOMAIN campaign
      /\ campaign[reply.c].status = "approved"
      /\ reply.was # "approved" )
    =>
    /\ IsModerator(reply.user)
    /\ \/ reply.op \in {"approve", "moderate"} /\ reply.was = "pending"
       \/ reply.op = "resume" /\ reply.was \in {"suspended", "cancelled"}


\* The history with exactly one row added at its end.
OneRowAppended(row) ==
    /\ Len(history') = Len(history) + 1
    /\ SubSeq(history', 1, Len(history)) = history
    /\ history'[Len(history')] = row

(* C12: the approve action succeeds exactly when the caller is a moderator or
   staff, the campaign is pending and its stripe_ready is true. On success the
   status becomes approved, moderation_notes becomes the supplied notes and
   exactly one ModerationHistory(approve) row is appended; otherwise status,
   notes and history are left as they were. *)
C12_Approve ==
    [][\A u \in Users, c \in DOMAIN campaign, n \in Notes :
         Approve(u, c, n) =>
            IF IsModerator(u) /\ campaign[c].status = "pending" /\ campaign[c].stripe_ready
            THEN /\ reply'.code = 200
                 /\ DOMAIN campaign' = DOMAIN campaign
                 /\ campaign'[c].status = "approved"
                 /\ campaign'[c].moderation_notes = n
                 /\ OneRowAppended([campaign |-> c, moderator |-> u,
                                    action |-> "approve", notes |-> n])
            ELSE /\ reply'.code # 200
                 /\ campaign' = campaign
                 /\ history' = history]_vars

\* A moderator has approved a pending, ready campaign with notes.
C12_Witness ==
    /\ reply.op = "approve" /\ reply.code = 200 /\ reply.was = "pending"
    /\ reply.c \in DOMAIN campaign
    /\ campaign[reply.c].status = "approved"
    /\ campaign[reply.c].stripe_ready
    /\ campaign[reply.c].moderation_notes = "n"
    /\ Len(history) > 0
    /\ history[Len(history)] = [campaign |-> reply.c, moderator |-> reply.user,
                                action |-> "approve", notes |-> "n"]


(* C13: a moderator's reject, through the API action or through the moderation
   dashboard, moves a campaign to rejected only when the campaign is pending
   and the notes are non-empty; it then stores the notes and appends exactly
   one ModerationHistory(reject) row. A reject with empty notes, or of a
   campaign that is not pending, changes neither status nor history. *)
C13_Reject ==
    [][\A u \in Users, c \in DOMAIN campaign, n \in Notes :
         (Reject(u, c, n) \/ moderate_campaign(u, c, "reject", n)) =>
            IF IsModerator(u) /\ campaign[c].status = "pending" /\ n # ""
            THEN /\ DOMAIN campaign' = DOMAIN campaign
                 /\ campaign'[c].status = "rejected"
                 /\ campaign'[c].moderation_notes = n
                 /\ OneRowAppended([campaign |-> c, moderator |-> u,
                                    action |-> "reject", notes |-> n])
            ELSE /\ campaign' = campaign
                 /\ history' = history]_vars

\* The same statement for the API action alone.
C13_RejectApiOnly ==
    [][\A u \in Users, c \in DOMAIN campaign, n \in Notes :
         Reject(u, c, n) =>
            IF IsModerator(u) /\ campaign[c].status = "pending" /\ n # ""
            THEN /\ campaign'[c].status = "rejected"
                 /\ campaign'[c].moderation_notes = n
                 /\ OneRowAppended([campaign |-> c, moderator |-> u,
                                    action |-> "reject", notes |-> n])
            ELSE /\ campaign' = campaign
                 /\ history' = history]_vars


(* C14: the resume action succeeds only when the caller is a moderator or
   staff, the campaign is suspended or cancelled and its stripe_ready is true;
   on success the status becomes approved and exactly one
   ModerationHistory(resume) row is appended. A resume of a campaign whose
   stripe_ready is false is refused and changes neither the status nor the
   history. *)
C14_Resume ==
    [][\A u \in Users, c \in DOMAIN campaign, n \in Notes \cup {NoValue} :
         Resume(u, c, n) =>
            /\ reply'.code = 200 =>
                 /\ IsModerator(u)
                 /\ campaign[c].status \in {"suspended", "cancelled"}
                 /\ campaign[c].stripe_ready
                 /\ DOMAIN campaign' = DOMAIN campaign
                 /\ campaign'[c].status = "approved"
                 /\ Len(history') = Len(history) + 1
                 /\ SubSeq(history', 1, Len(history)) = history
                 /\ history'[Len(history')].campaign = c
                 /\ history'[Len(history')].moderator = u
                 /\ history'[Len(history')].action = "resume"
            /\ ~campaign[c].stripe_ready =>
                 /\ reply'.code # 200
                 /\ campaign' = campaign
                 /\ history' = history]_vars

\* A moderator has resumed a suspended or cancelled, ready campaign.
C14_Witness ==
    /\ reply.op = "resume" /\ reply.code = 200
    /\ reply.was \in {"suspended", "cancelled"}
    /\ reply.c \in DOMAIN campaign
    /\ campaign[reply.c].status = "approved"
    /\ campaign[reply.c].stripe_ready
    /\ Len(history) > 0
    /\ history[Len(history)].action = "resume"
    /\ history[Len(history)].campaign = reply.c

\* A moderator's resume of a suspended campaign that is not ready was refused.
C14_Blocked ==
    /\ reply.op = "resume" /\ reply.code = 400 /\ reply.was = "suspended"
    /\ IsModerator(reply.user)
    /\ reply.c \in DOMAIN campaign
    /\ ~campaign[reply.c].stripe_ready
    /\ campaign[reply.c].status = "suspended"


(* C15: any successful edit of an approved or rejected campaign sets its
   status to pending and clears its moderation_notes, and leaves every
   ModerationHistory row written before in place and unchanged. *)
C15_EditResetsModeration ==
    [][\A u \in Users, c \in DOMAIN campaign, s \in Statuses \cup {NoValue},
          n \in {NoValue, "n"} :
         ( /\ campaign[c].status \in {"approved", "rejected"}
           /\ reply'.code = 200
           /\ PerformUpdate(u, c, s, n) )
         => /\ DOMAIN campaign' = DOMAIN campaign
            /\ campaign'[c].status = "pending"
            /\ campaign'[c].moderation_notes = ""
            /\ history' = history]_vars

\* An approved campaign with moderation notes and a history row has been
\* edited and is pending again, its notes cleared and its history kept.
C15_Witness ==
    /\ reply.op = "update" /\ reply.code = 200
    /\ reply.was \in {"approved", "rejected"}
    /\ reply.c \in DOMAIN campaign
    /\ campaign[reply.c].status = "pending"
    /\ campaign[reply.c].moderation_notes = ""
    /\ \E i \in 1..Len(history) :
          /\ history[i].campaign = reply.c
          /\ history[i].notes = "n"


(* C16: after a campaign-creation request the stored campaign is owned by the
   requester, its stripe_ready equals the readiness of the owner's payment
   account as just synced, and its status is draft whenever that account is
   not ready, whatever status was requested; when the account is ready the
   requested status is kept. *)
C16_Create ==
    [][\A u \in Owners, requested \in Statuses, stripe \in StripeAccountStates,
          createOk \in BOOLEAN, syncOk \in BOOLEAN :
         PerformCreate(u, requested, stripe, createOk, syncOk) =>
            LET c == lastId'.campaign
                ready == is_ready(account'[u])
            IN /\ c \in DOMAIN campaign'
               /\ campaign'[c].created_by = u
               /\ campaign'[c].stripe_ready = ready
               /\ campaign'[c].status = IF ready THEN requested ELSE "draft"]_vars

\* The same statement for the requests that are answered 201.
C16_CreateAnswered201 ==
    [][\A u \in Owners, requested \in Statuses, stripe \in StripeAccountStates,
          createOk \in BOOLEAN, syncOk \in BOOLEAN :
         (reply'.code = 201 /\ PerformCreate(u, requested, stripe, createOk, syncOk)) =>
            LET c == lastId'.campaign
                ready == is_ready(account'[u])
            IN /\ c \in DOMAIN campaign'
               /\ campaign'[c].created_by = u
               /\ campaign'[c].stripe_ready = ready
               /\ campaign'[c].status = IF ready THEN requested ELSE "draft"]_vars


(* C17: the suspend action moves a campaign to suspended only when its current
   status is approved and the caller is its owner or a moderator; in every
   other case the status is left unchanged. *)
C17_Suspend ==
    [][\A u \in Users, c \in DOMAIN campaign :
         Suspend(u, c) =>
            IF campaign[c].status = "approved"
               /\ (campaign[c].created_by = u \/ IsModerator(u))
            THEN campaign'[c].status \in {"suspended", "approved"}
            ELSE /\ DOMAIN campaign' = DOMAIN campaign
                 /\ campaign'[c].status = campaign[c].status]_vars

\* The part of the statement that is about the caller alone.
C17_SuspendCallerOnly ==
    [][\A u \in Users, c \in DOMAIN campaign :
         Suspend(u, c) =>
            \/ campaign[c].created_by = u
            \/ IsModerator(u)
            \/ campaign' = campaign]_vars


(* C18: once a Donation row exists, no operation deletes it or changes its
   campaign or its payment reference, and its amount changes only through
   reconciliation's corrective update: the recording of the same reference
   with a different authoritative amount. *)
C18_DonationsImmutable ==
    [][\A d \in donations :
         \E e \in donations' :
            /\ e.id = d.id
            /\ e.ref = d.ref
            /\ e.campaign = d.campaign
            /\ e.amount # d.amount =>
                 \E p \in Procs :
                    /\ proc[p].pc = "dsave"
                    /\ proc[p].ref = d.ref
                    /\ e.amount = proc[p].amount]_vars


(* C19: ModerationHistory is append-only: whatever operation is performed
   (campaign edits, deletions, lifecycle actions), every ModerationHistory row
   written before still exists afterwards with its original campaign, action
   and notes. *)
C19_HistoryAppendOnly ==
    [][/\ Len(history') >= Len(history)
       /\ \A i \in 1..Len(history) :
             /\ history'[i].campaign = history[i].campaign
             /\ history'[i].action = history[i].action
             /\ history'[i].notes = history[i].notes]_vars

\* The same statement for every operation but the deletion of a campaign.
C19_AppendOnlyWithoutDeletion ==
    [][reply'.op # "destroy" =>
         /\ Len(history') >= Len(history)
         /\ \A i \in 1..Len(history) : history'[i] = history[i]]_vars


(* C20: every Donation row written by a reconciliation entry point (webhook,
   client confirmation, sweep) has an amount above zero: an event or a
   processor object with a zero or negative amount never produces a ledger
   row. *)
C20_PositiveAmounts ==
    \A d \in donations : d.amount > 0

\* The same statement for the rows the webhook writes.
C20_WebhookPositive ==
    \A p \in Procs :
        (proc[p].kind = "webhook" /\ proc[p].pc = "done" /\ proc[p].resp = 200) =>
            \A d \in RowsOf(donations, proc[p].ref) : d.amount > 0


\* Session objects for the reference extraction: each id with and without a
\* payment-intent.
ExtractInputs ==
    {[id |-> i, payment_intent |-> pi] :
        i \in {"cs_a", "cs_b", "cs_e"}, pi \in {NoPI, "pi_1", "pi_9"}}

\* The reference a session is to be recorded under.
ReferenceOf(pi, sid) == IF pi # NoPI THEN <<"", pi>> ELSE <<"session_", sid>>

(* C21: the payment reference of a session is its payment-intent id when it has
   one, and otherwise session_<session id>: the same on every entry point
   (webhook and sweep, which pass the session alone, and confirmation, which
   passes the session id too), so that redeliveries of a session map to the
   same reference and sessions with different ids map to different
   references. *)
C21_ReferenceExtraction ==
    /\ \A p \in Procs :
          (proc[p].kind \in {"webhook", "confirm"} /\ proc[p].ref # NoRef) =>
              proc[p].ref = ReferenceOf(StripeSession(proc[p].sid).payment_intent,
                                        proc[p].sid)
    /\ \A p \in Procs :
          proc[p].kind = "sweep" =>
              \A i \in DOMAIN proc[p].listed :
                 \/ \E j \in DOMAIN StripePaymentIntentList :
                       proc[p].listed[i].ref = <<"", StripePaymentIntentList[j].id>>
                 \/ \E j \in DOMAIN StripeSessionList :
                       proc[p].listed[i].ref =
                          ReferenceOf(StripeSessionList[j].payment_intent,
                                      StripeSessionList[j].id)
    /\ \A s \in ExtractInputs :
          /\ extract_payment_intent_from_session(s, "") = ReferenceOf(s.payment_intent, s.id)
          /\ extract_payment_intent_from_session(s, s.id) = ReferenceOf(s.payment_intent, s.id)
    /\ \A s1, s2 \in ExtractInputs :
          (s1.payment_intent = NoPI /\ s2.payment_intent = NoPI /\ s1.id # s2.id) =>
              extract_payment_intent_from_session(s1, "") #
                  extract_payment_intent_from_session(s2, "")

\* A session without a payment-intent has been confirmed and swept: its row
\* carries the session-based reference, once.
C21_Witness ==
    /\ \E p \in Procs :
          /\ proc[p].kind = "sweep" /\ proc[p].pc = "done"
          /\ \E i \in DOMAIN proc[p].listed : proc[p].listed[i].ref = <<"session_", "cs_b">>
    /\ Cardinality({d \in donations : d.ref = <<"session_", "cs_b">>}) = 1
    /\ \E d \in donations : d.ref = <<"", "pi_1">>


(* C22: when a signing secret is configured, a webhook request whose signature
   does not verify, or whose payload cannot be parsed, is answered 400 and has
   no side effects: no donation, campaign or payment-account field changes. *)
C22_InvalidSignature ==
    [][\A req \in BadHookRequests : \A answer \in RetrieveAnswers(req.type) :
         ( /\ settings.STRIPE_WEBHOOK_SECRET
           /\ ~req.parse_ok \/ ~req.signature_ok
           /\ stripe_webhook("p1", req, answer.retrieved, answer.syncOk) )
         => /\ reply'.op = "webhook" /\ reply'.code = 400
            /\ proc' = proc
            /\ donations' = donations
            /\ campaign' = campaign
            /\ account' = account]_vars

\* With a secret configured, a donation is in the ledger and a request with a
\* bad signature has just been refused.
C22_Witness ==
    /\ settings.STRIPE_WEBHOOK_SECRET
    /\ reply.op = "webhook" /\ reply.code = 400
    /\ donations # {}
    /\ \E c \in DOMAIN campaign : campaign[c].current_amount > 0


(* C23: a checkout.session.completed event whose campaign identifier or amount
   is missing or not positive is answered 400, never 500, writes no Donation
   row and changes no campaign. *)
C23_MalformedEvent ==
    [][\A ev \in WebhookEvents :
         ( /\ ~ev.has_campaign_id \/ ev.campaign_id <= 0 \/ ev.amount_total <= 0
           /\ StartWebhook("p1", ev) )
         => /\ proc'["p1"].pc = "done"
            /\ proc'["p1"].resp = 400
            /\ donations' = donations
            /\ campaign' = campaign]_vars

\* The same statement for the events that do carry a campaign identifier.
C23_MalformedWithIdentifier ==
    [][\A ev \in WebhookEvents :
         ( /\ ev.has_campaign_id
           /\ ev.campaign_id <= 0 \/ ev.amount_total <= 0
           /\ StartWebhook("p1", ev) )
         => /\ proc'["p1"].pc = "done"
            /\ proc'["p1"].resp = 400
            /\ donations' = donations
            /\ campaign' = campaign]_vars


(* C24: a checkout.session.completed event that names a campaign which does
   not exist is answered 404 and writes no Donation row, so that a later
   delivery for the same reference still takes the creation branch. *)
C24_UnknownCampaign ==
    /\ [][\A ev \in WebhookEvents :
            ( /\ ev.has_campaign_id /\ ev.campaign_id > 0 /\ ev.amount_total > 0
              /\ ev.campaign_id \notin DOMAIN campaign
              /\ StartWebhook("p1", ev) )
            => /\ proc'["p1"].pc = "done"
               /\ proc'["p1"].resp = 404
               /\ donations' = donations
               /\ campaign' = campaign]_vars
    /\ [][\A ev \in WebhookEvents :
            ( /\ proc["p1"].kind = "webhook" /\ proc["p1"].pc = "done"
              /\ proc["p1"].resp = 404
              /\ ev.id = proc["p1"].sid
              /\ RowsOf(donations, ReferenceOf(ev.payment_intent, ev.id)) = {}
              /\ ev.has_campaign_id /\ ev.campaign_id \in DOMAIN campaign
              /\ ev.amount_total > 0
              /\ StartWebhook("p1", ev) )
            => /\ proc'["p1"].pc = "get"
               /\ proc'["p1"].ref = ReferenceOf(ev.payment_intent, ev.id)]_vars

\* A delivery for a session that is not in the ledger named an unknown
\* campaign and was answered 404; the ledger still has no row for it.
C24_Witness ==
    /\ proc["p1"].kind = "webhook" /\ proc["p1"].pc = "done"
    /\ proc["p1"].resp = 404
    /\ proc["p1"].sid = "cs_b"
    /\ RowsOf(donations, <<"session_", "cs_b">>) = {}
    /\ RowsOf(donations, <<"", "pi_1">>) # {}

\* The requests that parse and carry an event of a type the handler has no
\* branch for.
OtherTypeRequests ==
    {req \in HookRequests :
        /\ req.parse_ok
        /\ req.type \notin {"checkout.session.completed", "account.updated",
                            "capability.updated"}}

(* C25: a webhook event whose type is none of checkout.session.completed,
   account.updated and capability.updated is acknowledged with a success
   response and leaves every donation, campaign and payment account
   unchanged. *)
C25_UnknownEventIgnored ==
    [][\A req \in OtherTypeRequests : \A answer \in RetrieveAnswers(req.type) :
         ( /\ req.signature_ok \/ ~settings.STRIPE_WEBHOOK_SECRET
           /\ stripe_webhook("p1", req, answer.retrieved, answer.syncOk) )
         => /\ reply'.code = 200
            /\ donations' = donations
            /\ campaign' = campaign
            /\ account' = account]_vars

\* An event of another type has been acknowledged while the ledger holds a
\* donation.
C25_Witness ==
    /\ reply.op \in {"payment_intent.succeeded", "charge.refunded"}
    /\ reply.code = 200
    /\ donations # {}
    /\ \E c \in DOMAIN campaign : campaign[c].current_amount > 0


\* The requests that parse and carry an account.updated event.
AccountUpdatedRequests ==
    {req \in HookRequests : req.parse_ok /\ req.type = "account.updated"}

(* C26: after an account.updated event for a known payment account is handled,
   the account's charges_enabled, payouts_enabled and details_submitted equal
   the values in the event and every campaign owned by the account's user has
   stripe_ready equal to the account's is_ready; an event for an unknown
   account id changes nothing and is still acknowledged. *)
C26_AccountUpdated ==
    [][\A req \in AccountUpdatedRequests : \A answer \in RetrieveAnswers(req.type) :
         ( /\ req.signature_ok \/ ~settings.STRIPE_WEBHOOK_SECRET
           /\ stripe_webhook("p1", req, answer.retrieved, answer.syncOk) )
         => /\ reply'.code = 200
            /\ donations' = donations
            /\ IF \E u \in Users : /\ account[u].has
                                   /\ account[u].stripe_account_id = req.object.id
               THEN \A u \in Users :
                       (account[u].has /\ account[u].stripe_account_id = req.object.id) =>
                          /\ account'[u].charges_enabled = req.object.charges_enabled
                          /\ account'[u].payouts_enabled = req.object.payouts_enabled
                          /\ account'[u].details_submitted = req.object.details_submitted
                          /\ DOMAIN campaign' = DOMAIN campaign
                          /\ \A c \in DOMAIN campaign :
                                campaign[c].created_by = u =>
                                   campaign'[c].stripe_ready =
                                      ( /\ req.object.charges_enabled
                                        /\ req.object.payouts_enabled
                                        /\ req.object.details_submitted )
               ELSE /\ account' = account
                    /\ campaign' = campaign]_vars

\* An account.updated event has taken a ready account's readiness away, and
\* its owner's campaigns have followed.
C26_Witness ==
    /\ reply.op = "account.updated" /\ reply.code = 200
    /\ account["alice"].charges_enabled /\ ~account["alice"].payouts_enabled
    /\ \A c \in DOMAIN campaign : ~campaign[c].stripe_ready
    /\ donations # {}

\* C27: a payment account whose three flags are all true has no onboarding
\* link and no link expiry, in every state reached by any interleaving of
\* account syncs, account and capability events and onboarding-link requests.
C27_ReadyHasNoOnboardingLink ==
    \A u \in Users :
        (account[u].has /\ is_ready(account[u])) => ~account[u].onboarding_url


\* The confirmations (session id, campaign id) of a session that is not paid.
UnpaidConfirmations ==
    {rq \in SessionIds \X {1, 2, 9} :
        StripeSession(rq[1]).payment_status # "paid"}

\* C28: a confirmation for a session whose payment status is not paid is
\* answered with the payment-incomplete error (400) at once and writes
\* nothing: the ledger and every campaign total are as they were, so a
\* later confirmation finds the reference as absent as it was.
C28_UnpaidConfirmation ==
    [][\A rq \in UnpaidConfirmations :
         ( /\ rq[2] \in DOMAIN campaign
           /\ account[campaign[rq[2]].created_by].has
           /\ account[campaign[rq[2]].created_by].stripe_account_id
                 = StripeSession(rq[1]).account
           /\ StartConfirm("p1", rq[1], rq[2]) )
         => ( /\ proc'["p1"].pc = "done"
              /\ proc'["p1"].resp = 400
              /\ ~proc'["p1"].created /\ ~proc'["p1"].updated
              /\ donations' = donations
              /\ campaign' = campaign )]_vars

\* An unpaid session was confirmed after a donation had been recorded, and
\* the ledger and the totals are those the request started from.
C28_Witness ==
    /\ proc["p1"].kind = "confirm" /\ proc["p1"].pc = "done"
    /\ proc["p1"].sid = "cs_c" /\ proc["p1"].resp = 400
    /\ donations # {}
    /\ donations = proc["p1"].pre.donations
    /\ campaign = proc["p1"].pre.campaign


\* Worker p has answered the confirmation of a paid session whose reference
\* was not in the ledger when the request started.
ConfirmedNewPayment(p) ==
    /\ proc[p].kind = "confirm" /\ proc[p].pc = "done" /\ proc[p].c # 0
    /\ StripeSession(proc[p].sid).payment_status = "paid"
    /\ RowsOf(proc[p].pre.donations,
              ReferenceOf(StripeSession(proc[p].sid).payment_intent, proc[p].sid)) = {}

\* C29: the confirmation of a paid session whose reference is not yet in the
\* ledger creates exactly one donation, of the session's total in minor
\* units divided by 100 (held here in hundredths), for the campaign, and
\* raises the campaign's current_amount by exactly that amount; every other
\* row and campaign is as before.
C29_PaidConfirmation ==
    ConfirmedNewPayment("p1") =>
        LET me == proc["p1"]
            session == StripeSession(me.sid)
            ref == ReferenceOf(session.payment_intent, me.sid)
        IN /\ me.resp = 200
           /\ Cardinality(donations) = Cardinality(me.pre.donations) + 1
           /\ \E d \in donations :
                 /\ donations = me.pre.donations \cup {d}
                 /\ d.ref = ref
                 /\ d.campaign = me.c
                 /\ d.amount = session.amount_total
           /\ campaign[me.c].current_amount
                 = me.pre.campaign[me.c].current_amount + session.amount_total
           /\ \A c \in DOMAIN campaign \ {me.c} : campaign[c] = me.pre.campaign[c]

\* The session of 5000 minor units was confirmed for a campaign that had
\* already received a donation: one donation of 50.00 was added and the
\* total rose by 50.00.
C29_Witness ==
    /\ ConfirmedNewPayment("p1")
    /\ proc["p1"].sid = "cs_a"
    /\ proc["p1"].pre.campaign[1].current_amount > 0
    /\ \E d \in donations \ proc["p1"].pre.donations : d.amount = 5000
    /\ campaign[1].current_amount = proc["p1"].pre.campaign[1].current_amount + 5000


\* The campaigns that were approved and ready for payments when the sweep
\* of worker p started.
SweptCampaigns(p) ==
    {c \in DOMAIN proc[p].pre.campaign :
        /\ proc[p].pre.campaign[c].status = "approved"
        /\ proc[p].pre.campaign[c].stripe_ready}

\* The inputs of one pass of the sweep's loop.
SweepInputs == BOOLEAN \X BOOLEAN \X Faults

C31_ListingFailureSurfaced ==
    ( /\ proc["p1"].kind = "sweep" /\ proc["p1"].pc = "done"
      /\ proc["p1"].c # 0
      /\ ~proc["p1"].listOk )
    => proc["p1"].resp # 200


\* The edit requests of users who are not moderators: requester, requested
\* status, requested notes.
EditRequests ==
    {u \in Users : ~IsModerator(u)} \X (Statuses \cup {NoValue}) \X {NoValue, "n"}

Floor(a, b) ==
    IF (a < 0) = (b < 0) \/ a = 0
    THEN Abs(a) \div Abs(b)
    ELSE 0 - ((Abs(a) + Abs(b) - 1) \div Abs(b))

\* min(100, floor(current_amount / target_amount * 100)), and 0 for a target of 0.
progressPercentage(c) ==
    IF c.target_amount = 0 THEN 0
    ELSE IF Floor(c.current_amount * 100, c.target_amount) < 100
         THEN Floor(c.current_amount * 100, c.target_amount)
         ELSE 100

\* C33: the progress_percentage returned for a campaign equals
\* min(100, floor(current_amount / target_amount * 100)), and 0 when the
\* target is 0.
C33_ProgressPercentage ==
    [][\A u \in Users, c \in DOMAIN campaign :
         (reply'.code = 200 /\ RetrieveCampaign(u, c))
         => reply'.progress_percentage = progressPercentage(campaign[c])]_vars

\* The same statement for the campaigns whose target is not negative.
C33_ProgressOfPositiveTarget ==
    [][\A u \in Users, c \in DOMAIN campaign :
         (reply'.code = 200 /\ campaign[c].target_amount >= 0 /\ RetrieveCampaign(u, c))
         => reply'.progress_percentage = progressPercentage(campaign[c])]_vars


\* The checkout requests of the model.
CheckoutRequests ==
    {1, 2, 9} \X RequestAmounts \X StripeAccountStates \X BOOLEAN \X BOOLEAN

\* C34: a checkout request that is answered with a session asked the
\* processor for a unit_amount of the requested amount times 100 in whole
\* minor units of one item, with the campaign id in the session metadata
\* and in the payment-intent metadata, so that amount_total / 100 as
\* reconciliation reads it is the requested amount.
C34_CheckoutSession ==
    [][\A rq \in CheckoutRequests :
         ( /\ reply'.op = "checkout" /\ reply'.code = 200
           /\ create_checkout_session(rq[1], rq[2], rq[3], rq[4], rq[5]) )
         => LET params == reply'.params
            IN /\ params.unit_amount = 100 * rq[2].units + rq[2].hundredths
               /\ params.unit_amount > 0
               /\ params.quantity = 1
               /\ params.metadata.campaign_id = rq[1]
               /\ params.payment_intent_data.metadata.campaign_id = rq[1]
               /\ DecimalFromMinor(params.unit_amount * params.quantity) \div 100
                     = rq[2].units
               /\ DecimalFromMinor(params.unit_amount * params.quantity) % 100
                     = rq[2].hundredths]_vars

\* A session for 12.34 was asked for campaign 1: 1234 minor units.
C34_Witness ==
    /\ reply.op = "checkout" /\ reply.code = 200
    /\ reply.amount = [sign |-> 1, units |-> 12, hundredths |-> 34]
    /\ reply.params.unit_amount = 1234
    /\ reply.params.metadata.campaign_id = 1


\* The amount the webhook and the confirmation hand to
\* create_or_update_donation for a processor amount of n minor units is
\* n / 100: n \div 100 whole units and n % 100 hundredths.
C35_ExactAmounts ==
    [][ /\ \A ev \in WebhookEvents :
             (StartWebhook("p1", ev) /\ proc'["p1"].pc = "get")
             => /\ proc'["p1"].amount \div 100 = ev.amount_total \div 100
                /\ proc'["p1"].amount % 100 = ev.amount_total % 100
        /\ \A sid \in SessionIds, cid \in {0, 1, 2, 9} :
             (StartConfirm("p1", sid, cid) /\ proc'["p1"].pc = "get")
             => /\ proc'["p1"].amount \div 100 = StripeSession(sid).amount_total \div 100
                /\ proc'["p1"].amount % 100 = StripeSession(sid).amount_total % 100
      ]_vars

\* C35: the amount recorded for a processor amount of n minor units is
\* exactly n / 100 with two fractional digits, and the conversion uses
\* integer arithmetic only: no step of it goes through a float.
C35_IntegerConversion ==
    /\ C35_ExactAmounts
    /\ [](FloatSteps = {})


\* C36: the donation a confirmation creates belongs to the campaign named
\* in the metadata of the checkout session, whatever campaign_id the caller
\* sent with the request.
C36_ConfirmCreditsSessionCampaign ==
    ( /\ proc["p1"].kind = "confirm" /\ proc["p1"].pc = "done"
      /\ proc["p1"].created )
    => proc["p1"].don.campaign = StripeSession(proc["p1"].sid).campaign_id


\* C37: the save of current_amount by a webhook delivery, a confirmation or
\* a sweep leaves the status, stripe_ready and moderation_notes of every
\* campaign as they are in the database, also when a lifecycle action or a
\* readiness cascade was committed after the handler had read the campaign.
C37_ReconciliationKeepsLifecycle ==
    [][(IncrementCampaign("p1") \/ SaveCampaign("p1"))
       => \A c \in DOMAIN campaign :
             /\ campaign'[c].status = campaign[c].status
             /\ campaign'[c].stripe_ready = campaign[c].stripe_ready
             /\ campaign'[c].moderation_notes = campaign[c].moderation_notes]_vars


\* The status a moderation action gives a campaign.
StatusOf(action) == IF action = "approve" THEN "approved" ELSE "rejected"

\* C38: of the moderation actions that run on a pending campaign at most
\* one succeeds: the campaign gets one ModerationHistory row for the
\* transition, and once the requests are answered its status is the one of
\* the action of its most recent ModerationHistory row.
C38_OneModerationWins ==
    /\ Len(history) <= 1
    /\ (\A p \in Procs : ~Running(p)) =>
          (history # <<>> =>
              campaign[1].status = StatusOf(history[Len(history)].action))

\* The same statement for requests that do not overlap.
C38_SequentialModeration ==
    (\A p \in Procs : proc[p].pc # "idle" => proc[p].solo) => C38_OneModerationWins


\* The handlers that have gone through ensure_user_stripe_account for alice.
Ensured == {p \in Procs : proc[p].kind \in {"create", "onboard"}
                             /\ proc[p].pc \in {"ensured", "done"}
                             /\ proc[p].resp \notin {400, 500}}

\* C39: after any interleaving of ensure_user_stripe_account calls for one
\* user the processor has created one sub-account for them and one local
\* account row exists, and a call that found the local row has not called
\* the processor.
C39_OneAccountPerUser ==
    /\ lastId.stripe_account <= 1
    /\ Ensured # {} => account["alice"].has /\ lastId.stripe_account = 1
    /\ \A p \in Procs :
          proc[p].pc = "ensured" /\ ~proc[p].created =>
              proc[p].acct.has /\ lastId.stripe_account >= 1


\* C40: every iteration of a listing loop advances the pagination cursor,
\* ends the loop because has_more is false, or stops on a processor error,
\* so no page (one reporting has_more with no items included) leaves the
\* loop where it was.
C40_ListingIterationProgresses ==
    [][\A p \in Procs :
          proc[p].pc = "listing" /\ proc'[p].requests = proc[p].requests + 1 =>
              \/ proc'[p].sid # proc[p].sid
              \/ proc'[p].pc = "done"]_vars

====
